---- MODULE Spec2Model ----
(***************************************************************************)
(* Model of youtube-downloader-web.  Each component has its own variables  *)
(* and its own specification:                                              *)
(*   Spec      the batch orchestrator download_multiple_videos and its     *)
(*             worker closure (app/core/downloader.py)                     *)
(*   SpecHook  the progress hook of ProgressTracker (progress_tracker.py)  *)
(*   SpecStore the global progress store (progress_tracker.py)             *)
(*   SpecZip   create_zip_file (app/utils/file_manager.py)                 *)
(*   SpecName  the archive path of two batch runs (downloader.py)          *)
(*   SpecDc    download_content / handle_playlist (components/download.py) *)
(*   SpecOpts  get_download_options (downloader.py)                        *)
(*   SpecDsv   download_single_video (downloader.py)                       *)
(*   SpecDisc  find_downloaded_files after a fetch (file_manager.py)       *)
(*   SpecUi    on_download of the interface (interface/gradio_app.py)      *)
(*   SpecSess  two concurrent download_content calls of app.py             *)
(*   SpecLk    the batch lock and the store lock (downloader.py, app.py)   *)
(*                                                                         *)
(* In the batch component an item of video_list is identified by its       *)
(* position 1..N.  The path of the file fetched for item i and the error   *)
(* message built for item i are both represented by i; None is represented *)
(* by 0.  Its percent values are kept in tenths of a percent (the code     *)
(* rounds to one decimal).                                                 *)
(***************************************************************************)
EXTENDS Integers, Sequences, FiniteSets, TLC

\* Bounds of the model
MaxItems == 4
MaxWorkers == 3

None == 0

VARIABLES
    video_list,        \* the items requested, <<1, .., N>>
    max_workers,       \* pool size after auto-detection
    has_callback,      \* TRUE iff progress_callback is not None
    main_pc,           \* position of the calling thread
    temp_dir,          \* "none" | "exists" | "removed"
    pc,                \* per item: position of its worker task
    started,           \* per item: number of download_single_video calls
    fetched,           \* per item: "none" | "ok" | "raised"
    ret,               \* per item: (file_path, error) returned by the task
    progress_lock,     \* item holding progress_lock, 0 when free
    loaded,            \* per item: value of completed_count read by +=
    completed_count,   \* nonlocal counter of download_multiple_videos
    published,         \* aggregate snapshots handed to progress_callback
    collected,         \* futures already yielded by as_completed
    downloaded_files,  \* list built by the collection loop
    errors,            \* list built by the collection loop
    zip_input,         \* list handed to create_zip_file, <<>> before
    zip_called,        \* TRUE once create_zip_file was called
    outcome,           \* "none" | "returned" | "raised"
    raise_cause,       \* "none" | "NoVideos" | "NoSuccess" | "Zip"
    exc,               \* the exception that left the call, NoExc if none
    zip_error,         \* the exception create_zip_file raised, NoExc if none
    ffmpeg_available,  \* what check_ffmpeg_availability() returns now
    checked,           \* per item: "none" | "ok" | "missing", result of its check
    disk,              \* files that exist, each a path
    result_path        \* the path returned, NoFile if none

\* State of one progress hook (ProgressTracker.get_hook) and its callback
VARIABLES
    progress,          \* self.progress: video id -> last_percent, reported_finished
    hook_events,       \* the raw engine events the hook was called with
    forwarded,         \* the progress_data dictionaries handed to the callback
    forwarded_at,      \* for each of them, the index of its event
    completed_logged   \* times the one-time completion branch (59-64) ran

\* State of the global progress store of progress_tracker.py and of one poller
VARIABLES
    progress_data,     \* the global dictionary: id -> snapshot
    polled,            \* what get_progress_status returned to the poller
    polled_seen,       \* the content of that mapping when it was returned
    passed,            \* the snapshots passed to update_progress so far
    store_updates      \* number of update_progress calls so far

\* State of one create_zip_file call (file_manager.py)
VARIABLES
    file_paths,        \* the list of paths to bundle
    fs,                \* the input files that exist: path -> content
    zip_pc,            \* "start" | "writing" | "done" | "raised"
    zip_idx,           \* number of loop iterations done
    archive,           \* the entries written to output_path, in order
    zip_exc            \* the exception create_zip_file raised, NoExc if none

\* State of two download_multiple_videos calls naming their archive
VARIABLES
    now,               \* the wall clock, in half seconds
    run_pc,            \* per run: "idle" | "named" | "zipped" | "returned"
    zip_path,          \* per run: the zip_path it computed, <<>> before
    zip_owner          \* archive path -> the run whose content it holds

\* State of one download_content / handle_playlist call (download.py)
VARIABLES
    dc_entry,          \* "download_content" | "handle_playlist"
    info_type,         \* "playlist" | "video"
    playlist,          \* info["videos"]: the items of the playlist
    selected_videos,   \* the selected indices (0-based), <<>> if none
    videos,            \* the list after selection filtering
    dc_pc,             \* "start" | "done"
    dc_calls,          \* the calls made to the core downloader, in order
    packager_called,   \* TRUE once create_zip_file was reached
    fetched_count,     \* number of items actually fetched successfully
    dc_result          \* the (file_path, status_message) returned

\* State of a series of get_download_options calls (downloader.py)
VARIABLES
    opt_calls          \* the calls made: arguments and what each produced

\* State of one download_single_video call (downloader.py)
VARIABLES
    dsv_caller,        \* who calls: the modular app, app.py, or another caller
    dsv_input,         \* video_url is a "url" or a "dict" of video info
    dsv_format,        \* format_type, audio_format, video_quality passed
    dsv_output_dir,    \* "omitted" (None) | "given"
    dsv_callback,      \* progress_callback: "none" | "update_progress"
    dsv_ffmpeg,        \* what check_ffmpeg_availability() returns
    dsv_pc,            \* position in the function body
    dsv_trace,         \* the effects performed so far, in order
    dsv_tmp,           \* the directory of tempfile.mkdtemp(): "none" | "exists"
    dsv_tracker,       \* self.progress[video_id] of the call's ProgressTracker
    dsv_events,        \* the progress events the engine emitted
    dsv_store,         \* the global progress_data the callback writes
    dsv_outcome        \* how the call ended: kind, cause, exc

\* State of two download_single_video calls finding their output in one
\* work directory (downloader.py, file_manager.py)
VARIABLES
    disc_titles,       \* per item: its sanitized title, a sequence of parts
    disc_dir,          \* the work directory: file name -> item that wrote it
    disc_pc,           \* per item: "engine" | "find" | "done"
    disc_listing,      \* per item: what os.listdir returned to it
    disc_result        \* per item: how its call ended and the path returned

\* State of one on_download call of the interface (gradio_app.py)
VARIABLES
    ui_request,        \* what the user selected: format, codec, quality
    ui_pc,             \* "clicked" | "called" | "normalised" | "built"
    ui_args,           \* the format arguments as passed on so far
    ui_opts            \* the engine options built, <<>> before

\* State of two download_content calls sharing the progress store (app.py)
VARIABLES
    sess_pc,           \* per call: "idle" | "running" | "ended"
    sess_store,        \* the global progress_data: id -> snapshot
    sess_sent          \* per call: number of snapshots it has published

\* State of the threads of one batch and a progress poller (two locks)
VARIABLES
    lk_pc,             \* per thread: its position
    lk_locks,          \* per lock: the thread holding it, or Free
    lk_hooks,          \* per worker: hook events delivered so far
    lk_polls,          \* polls made so far
    lk_completed       \* completed_count of download_multiple_videos

batch_vars == <<video_list, max_workers, has_callback, main_pc, temp_dir, pc,
                started, fetched, ret, progress_lock, loaded, completed_count,
                published, collected, downloaded_files, errors, zip_input,
                zip_called, outcome, raise_cause, exc, zip_error,
                ffmpeg_available, checked, disk, result_path>>

hook_vars == <<progress, hook_events, forwarded, forwarded_at,
               completed_logged>>

store_vars == <<progress_data, polled, polled_seen, passed, store_updates>>

zip_vars == <<file_paths, fs, zip_pc, zip_idx, archive, zip_exc>>

name_vars == <<now, run_pc, zip_path, zip_owner>>

dc_vars == <<dc_entry, info_type, playlist, selected_videos, videos, dc_pc,
             dc_calls, packager_called, fetched_count, dc_result>>

opts_vars == <<opt_calls>>

dsv_vars == <<dsv_caller, dsv_input, dsv_format, dsv_output_dir, dsv_callback,
              dsv_ffmpeg, dsv_pc, dsv_trace, dsv_tmp, dsv_tracker, dsv_events,
              dsv_store, dsv_outcome>>

disc_vars == <<disc_titles, disc_dir, disc_pc, disc_listing, disc_result>>

ui_vars == <<ui_request, ui_pc, ui_args, ui_opts>>

sess_vars == <<sess_pc, sess_store, sess_sent>>

lk_vars == <<lk_pc, lk_locks, lk_hooks, lk_polls, lk_completed>>

vars == <<batch_vars, hook_vars, store_vars, zip_vars, name_vars, dc_vars, opts_vars, dsv_vars, disc_vars, ui_vars, sess_vars, lk_vars>>

Items == 1..Len(video_list)
total_videos == Len(video_list)

\* number of worker threads of the pool that are running a task
Busy == Cardinality({i \in Items : pc[i] \in {"fetching", "wait_lock", "locked"}})
\* number of download_single_video calls in progress
Fetching == Cardinality({i \in Items : pc[i] = "fetching"})

----
\* float(f"{(completed_count / total_videos) * 100:.1f}"), in tenths of a
\* percent; the .1f format rounds to nearest, ties to even
RoundHalfEven(num, den) ==
    LET q == num \div den
        r == num % den
    IN  IF 2 * r < den THEN q
        ELSE IF 2 * r > den THEN q + 1
        ELSE IF q % 2 = 0 THEN q ELSE q + 1

percent_floor(completed, total) == ((completed \div total) * 100) * 10

overall_percent(completed, total) == RoundHalfEven(completed * 1000, total)

\* the dictionary built by update_overall_progress
overall_progress(completed, total, title) ==
    [id |-> "overall", status |-> "downloading",
     percent |-> overall_percent(completed, total),
     current_video |-> completed, total_videos |-> total,
     current_title |-> title]

\* update_overall_progress: calls the callback when there is one
update_overall_progress(completed, total, title, pub, cb) ==
    IF cb THEN Append(pub, overall_progress(completed, total, title)) ELSE pub

\* shutil.rmtree(temp_dir, ignore_errors=True) guarded by os.path.exists
rmtree_skipped(td) == td

rmtree(td) == IF td = "exists" THEN "removed" ELSE td

\* a path is <<directory, name, number>>; the directories are the per-batch temp_dir
\* (tempfile.mkdtemp()) and output_dir (the downloads directory)
NoFile == <<>>

\* the file download_single_video leaves in temp_dir for item i
item_file(i) == <<"temp_dir", "item", i>>

\* zip_path = os.path.join(output_dir, zip_filename)
batch_zip_path_in_temp == <<"temp_dir", "playlist.zip", 0>>

batch_zip_path == <<"output_dir", "playlist.zip", 0>>

\* what shutil.rmtree(temp_dir) leaves of the file system
rmtree_files(fs_now) == {f \in fs_now : f[1] # "temp_dir"}

\* `if not check_ffmpeg_availability():` at the top of download_single_video
check_ffmpeg_availability == IF ffmpeg_available THEN "ok" ELSE "missing"

\* `if not downloaded_files:` of download_multiple_videos
batch_failed_on_error(files, errs) == Len(errs) > 0

batch_failed(files, errs) == Len(files) = 0

\* Exceptions are records of a kind (the class) and a message (str(e), kept
\* as the sequence of its parts)
NoExc == [kind |-> "none", msg |-> <<>>]

VideoDownloadException(message) ==
    [kind |-> "VideoDownloadException", msg |-> message]

\* the exceptions zipfile.ZipFile(output_path, "w") and zipf.write can raise;
\* create_zip_file logs and re-raises them unchanged
ZipErrors ==
    {[kind |-> "PermissionError", msg |-> <<"Permission denied">>],
     [kind |-> "FileNotFoundError", msg |-> <<"No such file or directory">>]}

\* `except Exception as e:` of download_multiple_videos:
\* raise VideoDownloadException(f"Error in batch download: {str(e)}")
except_wrap(e) ==
    VideoDownloadException(<<"Error in batch download: ">> \o e.msg)

\* the exception raised inside the try when nothing was downloaded
no_success_error(errs) ==
    VideoDownloadException(
        <<"No videos were successfully downloaded">> \o
        (IF errs # <<>>
         THEN <<". Errors: ">> \o SubSeq(errs, 1, IF Len(errs) < 3 THEN Len(errs) ELSE 3)
         ELSE <<>>))

----
\* Each specification below runs one component; the variables of the other
\* components stay at these values
BatchParked ==
    /\ video_list = <<>>
    /\ max_workers = 1
    /\ has_callback = FALSE
    /\ main_pc = "off"
    /\ temp_dir = "none"
    /\ pc = <<>>
    /\ started = <<>>
    /\ fetched = <<>>
    /\ ret = <<>>
    /\ progress_lock = 0
    /\ loaded = <<>>
    /\ completed_count = 0
    /\ published = <<>>
    /\ collected = {}
    /\ downloaded_files = <<>>
    /\ errors = <<>>
    /\ zip_input = <<>>
    /\ zip_called = FALSE
    /\ outcome = "none"
    /\ raise_cause = "none"
    /\ exc = NoExc
    /\ zip_error = NoExc
    /\ ffmpeg_available = TRUE
    /\ checked = <<>>
    /\ disk = {}
    /\ result_path = NoFile

HookParked ==
    /\ progress = <<>>
    /\ hook_events = <<>>
    /\ forwarded = <<>>
    /\ forwarded_at = <<>>
    /\ completed_logged = 0

StoreParked ==
    /\ progress_data = <<>>
    /\ polled = [taken |-> FALSE, alias |-> FALSE, snap |-> <<>>]
    /\ polled_seen = <<>>
    /\ passed = {}
    /\ store_updates = 0

ZipParked ==
    /\ file_paths = <<>>
    /\ fs = <<>>
    /\ zip_pc = "off"
    /\ zip_idx = 0
    /\ archive = <<>>
    /\ zip_exc = NoExc

NameParked ==
    /\ now = 0
    /\ run_pc = <<>>
    /\ zip_path = <<>>
    /\ zip_owner = <<>>

DcParked ==
    /\ dc_entry = "none"
    /\ info_type = "none"
    /\ playlist = <<>>
    /\ selected_videos = <<>>
    /\ videos = <<>>
    /\ dc_pc = "off"
    /\ dc_calls = <<>>
    /\ packager_called = FALSE
    /\ fetched_count = 0
    /\ dc_result = <<>>

OptsParked ==
    /\ opt_calls = <<>>

DsvParked ==
    /\ dsv_caller = "none"
    /\ dsv_input = "none"
    /\ dsv_format = <<>>
    /\ dsv_output_dir = "none"
    /\ dsv_callback = "none"
    /\ dsv_ffmpeg = TRUE
    /\ dsv_pc = "off"
    /\ dsv_trace = <<>>
    /\ dsv_tmp = "none"
    /\ dsv_tracker = <<>>
    /\ dsv_events = <<>>
    /\ dsv_store = <<>>
    /\ dsv_outcome = <<>>

DiscParked ==
    /\ disc_titles = <<>>
    /\ disc_dir = <<>>
    /\ disc_pc = <<>>
    /\ disc_listing = <<>>
    /\ disc_result = <<>>

UiParked ==
    /\ ui_request = <<>>
    /\ ui_pc = "off"
    /\ ui_args = <<>>
    /\ ui_opts = <<>>

SessParked ==
    /\ sess_pc = <<>>
    /\ sess_store = <<>>
    /\ sess_sent = <<>>

LkParked ==
    /\ lk_pc = <<>>
    /\ lk_locks = <<>>
    /\ lk_hooks = <<>>
    /\ lk_polls = 0
    /\ lk_completed = 0

non_batch_vars == <<hook_vars, store_vars, zip_vars, name_vars, dc_vars, opts_vars, dsv_vars, disc_vars, ui_vars, sess_vars, lk_vars>>
non_hook_vars == <<batch_vars, store_vars, zip_vars, name_vars, dc_vars, opts_vars, dsv_vars, disc_vars, ui_vars, sess_vars, lk_vars>>
non_store_vars == <<batch_vars, hook_vars, zip_vars, name_vars, dc_vars, opts_vars, dsv_vars, disc_vars, ui_vars, sess_vars, lk_vars>>
non_zip_vars == <<batch_vars, hook_vars, store_vars, name_vars, dc_vars, opts_vars, dsv_vars, disc_vars, ui_vars, sess_vars, lk_vars>>
non_name_vars == <<batch_vars, hook_vars, store_vars, zip_vars, dc_vars, opts_vars, dsv_vars, disc_vars, ui_vars, sess_vars, lk_vars>>
non_dc_vars == <<batch_vars, hook_vars, store_vars, zip_vars, name_vars, opts_vars, dsv_vars, disc_vars, ui_vars, sess_vars, lk_vars>>
non_opts_vars == <<batch_vars, hook_vars, store_vars, zip_vars, name_vars, dc_vars, dsv_vars, disc_vars, ui_vars, sess_vars, lk_vars>>
non_dsv_vars == <<batch_vars, hook_vars, store_vars, zip_vars, name_vars, dc_vars, opts_vars, disc_vars, ui_vars, sess_vars, lk_vars>>
non_disc_vars == <<batch_vars, hook_vars, store_vars, zip_vars, name_vars, dc_vars, opts_vars, dsv_vars, ui_vars, sess_vars, lk_vars>>
non_ui_vars == <<batch_vars, hook_vars, store_vars, zip_vars, name_vars, dc_vars, opts_vars, dsv_vars, disc_vars, sess_vars, lk_vars>>
non_sess_vars == <<batch_vars, hook_vars, store_vars, zip_vars, name_vars, dc_vars, opts_vars, dsv_vars, disc_vars, ui_vars, lk_vars>>
non_lk_vars == <<batch_vars, hook_vars, store_vars, zip_vars, name_vars, dc_vars, opts_vars, dsv_vars, disc_vars, ui_vars, sess_vars>>

NonBatchParked == HookParked /\ StoreParked /\ ZipParked /\ NameParked /\ DcParked /\ OptsParked /\ DsvParked /\ DiscParked /\ UiParked /\ SessParked /\ LkParked
NonHookParked == BatchParked /\ StoreParked /\ ZipParked /\ NameParked /\ DcParked /\ OptsParked /\ DsvParked /\ DiscParked /\ UiParked /\ SessParked /\ LkParked
NonStoreParked == BatchParked /\ HookParked /\ ZipParked /\ NameParked /\ DcParked /\ OptsParked /\ DsvParked /\ DiscParked /\ UiParked /\ SessParked /\ LkParked
NonZipParked == BatchParked /\ HookParked /\ StoreParked /\ NameParked /\ DcParked /\ OptsParked /\ DsvParked /\ DiscParked /\ UiParked /\ SessParked /\ LkParked
NonNameParked == BatchParked /\ HookParked /\ StoreParked /\ ZipParked /\ DcParked /\ OptsParked /\ DsvParked /\ DiscParked /\ UiParked /\ SessParked /\ LkParked
NonDcParked == BatchParked /\ HookParked /\ StoreParked /\ ZipParked /\ NameParked /\ OptsParked /\ DsvParked /\ DiscParked /\ UiParked /\ SessParked /\ LkParked
NonOptsParked == BatchParked /\ HookParked /\ StoreParked /\ ZipParked /\ NameParked /\ DcParked /\ DsvParked /\ DiscParked /\ UiParked /\ SessParked /\ LkParked
NonDsvParked == BatchParked /\ HookParked /\ StoreParked /\ ZipParked /\ NameParked /\ DcParked /\ OptsParked /\ DiscParked /\ UiParked /\ SessParked /\ LkParked
NonDiscParked == BatchParked /\ HookParked /\ StoreParked /\ ZipParked /\ NameParked /\ DcParked /\ OptsParked /\ DsvParked /\ UiParked /\ SessParked /\ LkParked
NonUiParked == BatchParked /\ HookParked /\ StoreParked /\ ZipParked /\ NameParked /\ DcParked /\ OptsParked /\ DsvParked /\ DiscParked /\ SessParked /\ LkParked
NonSessParked == BatchParked /\ HookParked /\ StoreParked /\ ZipParked /\ NameParked /\ DcParked /\ OptsParked /\ DsvParked /\ DiscParked /\ UiParked /\ LkParked
NonLkParked == BatchParked /\ HookParked /\ StoreParked /\ ZipParked /\ NameParked /\ DcParked /\ OptsParked /\ DsvParked /\ DiscParked /\ UiParked /\ SessParked

----
Init ==
    /\ NonBatchParked
    /\ \E n \in 0..MaxItems : video_list = [k \in 1..n |-> k]
    /\ max_workers \in 1..MaxWorkers
    /\ has_callback \in BOOLEAN
    /\ main_pc = "start"
    /\ temp_dir = "none"
    /\ pc = [i \in 1..Len(video_list) |-> "idle"]
    /\ started = [i \in 1..Len(video_list) |-> 0]
    /\ fetched = [i \in 1..Len(video_list) |-> "none"]
    /\ ret = [i \in 1..Len(video_list) |-> <<None, None>>]
    /\ progress_lock = 0
    /\ loaded = [i \in 1..Len(video_list) |-> 0]
    /\ completed_count = 0
    /\ published = <<>>
    /\ collected = {}
    /\ downloaded_files = <<>>
    /\ errors = <<>>
    /\ zip_input = <<>>
    /\ zip_called = FALSE
    /\ outcome = "none"
    /\ raise_cause = "none"
    /\ exc = NoExc
    /\ zip_error = NoExc
    /\ ffmpeg_available = TRUE
    /\ checked = [i \in 1..Len(video_list) |-> "none"]
    /\ disk = {}
    /\ result_path = NoFile

\* download_multiple_videos called with an empty list: raises before mkdtemp
RaiseNoVideos_AfterMkdtemp ==
    /\ main_pc = "start"
    /\ video_list = <<>>
    /\ temp_dir' = "exists"
    /\ main_pc' = "end"
    /\ outcome' = "raised"
    /\ raise_cause' = "NoVideos"
    /\ exc' = VideoDownloadException(<<"No videos to download">>)
    /\ UNCHANGED <<ffmpeg_available, checked, disk, result_path>>
    /\ UNCHANGED <<video_list, max_workers, has_callback, pc,
                   started, fetched, ret, progress_lock, loaded,
                   completed_count, published, collected, downloaded_files,
                   errors, zip_input, zip_called, zip_error>>

RaiseNoVideos ==
    /\ main_pc = "start"
    /\ video_list = <<>>
    /\ main_pc' = "end"
    /\ outcome' = "raised"
    /\ raise_cause' = "NoVideos"
    /\ exc' = VideoDownloadException(<<"No videos to download">>)
    /\ UNCHANGED zip_error
    /\ UNCHANGED <<ffmpeg_available, checked, disk, result_path>>
    /\ UNCHANGED <<video_list, max_workers, has_callback, temp_dir, pc,
                   started, fetched, ret, progress_lock, loaded,
                   completed_count, published, collected, downloaded_files,
                   errors, zip_input, zip_called>>

\* mkdtemp, then the executor is created and every item is submitted
SubmitAll ==
    /\ main_pc = "start"
    /\ video_list # <<>>
    /\ temp_dir' = "exists"
    /\ pc' = [i \in Items |-> "queued"]
    /\ main_pc' = "collect"
    /\ UNCHANGED <<ffmpeg_available, checked, disk, result_path>>
    /\ UNCHANGED <<video_list, max_workers, has_callback, started, fetched,
                   ret, progress_lock, loaded, completed_count, published,
                   collected, downloaded_files, errors, zip_input,
                   zip_called, outcome, raise_cause, exc,
                   zip_error>>

\* a free pool thread takes the oldest queued task and calls
\* download_single_video
StartFetch_Unbounded(i) ==
    /\ pc[i] = "queued"
    /\ \A j \in Items : pc[j] = "queued" => i <= j
    /\ pc' = [pc EXCEPT ![i] = "fetching"]
    /\ started' = [started EXCEPT ![i] = @ + 1]
    /\ checked' = [checked EXCEPT ![i] = check_ffmpeg_availability]
    /\ UNCHANGED <<ffmpeg_available, disk, result_path>>
    /\ UNCHANGED <<video_list, max_workers, has_callback, main_pc, temp_dir,
                   fetched, ret, progress_lock, loaded, completed_count,
                   published, collected, downloaded_files, errors, zip_input,
                   zip_called, outcome, raise_cause, exc,
                   zip_error>>

StartFetch(i) ==
    /\ pc[i] = "queued"
    /\ \A j \in Items : pc[j] = "queued" => i <= j
    /\ Busy < max_workers
    /\ pc' = [pc EXCEPT ![i] = "fetching"]
    /\ started' = [started EXCEPT ![i] = @ + 1]
    /\ checked' = [checked EXCEPT ![i] = check_ffmpeg_availability]
    /\ UNCHANGED <<ffmpeg_available, disk, result_path>>
    /\ UNCHANGED <<video_list, max_workers, has_callback, main_pc, temp_dir,
                   fetched, ret, progress_lock, loaded, completed_count,
                   published, collected, downloaded_files, errors, zip_input,
                   zip_called, outcome, raise_cause, exc,
                   zip_error>>

\* download_single_video returns a path
FetchOk_IgnoreCheck(i) ==
    /\ pc[i] = "fetching"
    /\ fetched' = [fetched EXCEPT ![i] = "ok"]
    /\ pc' = [pc EXCEPT ![i] = "wait_lock"]
    /\ disk' = disk \cup {item_file(i)}
    /\ UNCHANGED <<ffmpeg_available, checked, result_path>>
    /\ UNCHANGED <<video_list, max_workers, has_callback, main_pc, temp_dir,
                   started, ret, progress_lock, loaded, completed_count,
                   published, collected, downloaded_files, errors, zip_input,
                   zip_called, outcome, raise_cause, exc,
                   zip_error>>

FetchOk(i) ==
    /\ pc[i] = "fetching"
    /\ checked[i] = "ok"
    /\ fetched' = [fetched EXCEPT ![i] = "ok"]
    /\ pc' = [pc EXCEPT ![i] = "wait_lock"]
    /\ disk' = disk \cup {item_file(i)}
    /\ UNCHANGED <<ffmpeg_available, checked, result_path>>
    /\ UNCHANGED <<video_list, max_workers, has_callback, main_pc, temp_dir,
                   started, ret, progress_lock, loaded, completed_count,
                   published, collected, downloaded_files, errors, zip_input,
                   zip_called, outcome, raise_cause, exc,
                   zip_error>>

\* download_single_video raises: the except branch returns (None, error_msg)
FetchFail_Retry(i) ==
    /\ pc[i] = "fetching"
    /\ fetched' = [fetched EXCEPT ![i] = "raised"]
    /\ pc' = [pc EXCEPT ![i] = IF started[i] < 2 THEN "queued" ELSE "done"]
    /\ ret' = [ret EXCEPT ![i] = <<None, i>>]
    /\ UNCHANGED <<ffmpeg_available, checked, disk, result_path>>
    /\ UNCHANGED <<video_list, max_workers, has_callback, main_pc, temp_dir,
                   started, progress_lock, loaded, completed_count,
                   published, collected, downloaded_files, errors, zip_input,
                   zip_called, outcome, raise_cause, exc,
                   zip_error>>

FetchFail(i) ==
    /\ pc[i] = "fetching"
    /\ fetched' = [fetched EXCEPT ![i] = "raised"]
    /\ pc' = [pc EXCEPT ![i] = "done"]
    /\ ret' = [ret EXCEPT ![i] = <<None, i>>]
    /\ UNCHANGED <<ffmpeg_available, checked, disk, result_path>>
    /\ UNCHANGED <<video_list, max_workers, has_callback, main_pc, temp_dir,
                   started, progress_lock, loaded, completed_count,
                   published, collected, downloaded_files, errors, zip_input,
                   zip_called, outcome, raise_cause, exc,
                   zip_error>>

\* `with progress_lock:` entered, completed_count read by `+= 1`
LockAndLoad_NoLock(i) ==
    /\ pc[i] = "wait_lock"
    /\ progress_lock' = i
    /\ loaded' = [loaded EXCEPT ![i] = completed_count]
    /\ pc' = [pc EXCEPT ![i] = "locked"]
    /\ UNCHANGED <<ffmpeg_available, checked, disk, result_path>>
    /\ UNCHANGED <<video_list, max_workers, has_callback, main_pc, temp_dir,
                   started, fetched, ret, completed_count, published,
                   collected, downloaded_files, errors, zip_input,
                   zip_called, outcome, raise_cause, exc,
                   zip_error>>

LockAndLoad(i) ==
    /\ pc[i] = "wait_lock"
    /\ progress_lock = 0
    /\ progress_lock' = i
    /\ loaded' = [loaded EXCEPT ![i] = completed_count]
    /\ pc' = [pc EXCEPT ![i] = "locked"]
    /\ UNCHANGED <<ffmpeg_available, checked, disk, result_path>>
    /\ UNCHANGED <<video_list, max_workers, has_callback, main_pc, temp_dir,
                   started, fetched, ret, completed_count, published,
                   collected, downloaded_files, errors, zip_input,
                   zip_called, outcome, raise_cause, exc,
                   zip_error>>

\* completed_count stored, update_overall_progress called, lock released,
\* (file_path, None) returned
StoreAndPublish(i) ==
    /\ pc[i] = "locked"
    /\ completed_count' = loaded[i] + 1
    /\ published' = update_overall_progress(loaded[i] + 1, total_videos, i,
                                            published, has_callback)
    /\ progress_lock' = 0
    /\ loaded' = [loaded EXCEPT ![i] = 0]
    /\ ret' = [ret EXCEPT ![i] = <<i, None>>]
    /\ pc' = [pc EXCEPT ![i] = "done"]
    /\ UNCHANGED <<ffmpeg_available, checked, disk, result_path>>
    /\ UNCHANGED <<video_list, max_workers, has_callback, main_pc, temp_dir,
                   started, fetched, collected, downloaded_files, errors,
                   zip_input, zip_called, outcome, raise_cause, exc,
                   zip_error>>

\* one iteration of `for future in as_completed(future_to_video)`
Collect_NoChecks(i) ==
    /\ main_pc = "collect"
    /\ pc[i] = "done"
    /\ i \notin collected
    /\ collected' = collected \cup {i}
    /\ downloaded_files' = Append(downloaded_files, ret[i][1])
    /\ errors' = Append(errors, ret[i][2])
    /\ UNCHANGED <<ffmpeg_available, checked, disk, result_path>>
    /\ UNCHANGED <<video_list, max_workers, has_callback, main_pc, temp_dir,
                   pc, started, fetched, ret, progress_lock, loaded,
                   completed_count, published, zip_input, zip_called,
                   outcome, raise_cause, exc,
                   zip_error>>

Collect_DropErrors(i) ==
    /\ main_pc = "collect"
    /\ pc[i] = "done"
    /\ i \notin collected
    /\ collected' = collected \cup {i}
    /\ downloaded_files' = IF ret[i][1] # None
                           THEN Append(downloaded_files, ret[i][1])
                           ELSE downloaded_files
    /\ errors' = errors
    /\ UNCHANGED <<ffmpeg_available, checked, disk, result_path>>
    /\ UNCHANGED <<video_list, max_workers, has_callback, main_pc, temp_dir,
                   pc, started, fetched, ret, progress_lock, loaded,
                   completed_count, published, zip_input, zip_called,
                   outcome, raise_cause, exc,
                   zip_error>>

Collect(i) ==
    /\ main_pc = "collect"
    /\ pc[i] = "done"
    /\ i \notin collected
    /\ collected' = collected \cup {i}
    /\ downloaded_files' = IF ret[i][1] # None
                           THEN Append(downloaded_files, ret[i][1])
                           ELSE downloaded_files
    /\ errors' = IF ret[i][2] # None
                 THEN Append(errors, ret[i][2])
                 ELSE errors
    /\ UNCHANGED <<ffmpeg_available, checked, disk, result_path>>
    /\ UNCHANGED <<video_list, max_workers, has_callback, main_pc, temp_dir,
                   pc, started, fetched, ret, progress_lock, loaded,
                   completed_count, published, zip_input, zip_called,
                   outcome, raise_cause, exc,
                   zip_error>>

\* the loop and the `with` block end once every future was yielded
AllCollected_NoWait ==
    main_pc = "collect" /\ \A i \in Items : pc[i] = "done" => i \in collected

AllCollected == main_pc = "collect" /\ collected = Items

\* no file was downloaded: VideoDownloadException raised inside the try, the
\* except branch removes temp_dir and raises
RaiseNoSuccess ==
    /\ AllCollected
    /\ batch_failed(downloaded_files, errors)
    /\ temp_dir' = rmtree(temp_dir)
    /\ main_pc' = "end"
    /\ outcome' = "raised"
    /\ raise_cause' = "NoSuccess"
    /\ exc' = except_wrap(no_success_error(errors))
    /\ UNCHANGED zip_error
    /\ disk' = rmtree_files(disk)
    /\ UNCHANGED <<ffmpeg_available, checked, result_path>>
    /\ UNCHANGED <<video_list, max_workers, has_callback, pc, started,
                   fetched, ret, progress_lock, loaded, completed_count,
                   published, collected, downloaded_files, errors, zip_input,
                   zip_called>>

\* create_zip_file raises: the except branch removes temp_dir and raises
PackageFail ==
    /\ AllCollected
    /\ ~batch_failed(downloaded_files, errors)
    /\ zip_input' = downloaded_files
    /\ zip_called' = TRUE
    /\ temp_dir' = rmtree(temp_dir)
    /\ main_pc' = "end"
    /\ outcome' = "raised"
    /\ raise_cause' = "Zip"
    /\ \E e \in ZipErrors : zip_error' = e /\ exc' = except_wrap(e)
    /\ \E left \in BOOLEAN :
          disk' = rmtree_files(IF left THEN disk \cup {batch_zip_path}
                                        ELSE disk)
    /\ UNCHANGED <<ffmpeg_available, checked, result_path>>
    /\ UNCHANGED <<video_list, max_workers, has_callback, pc, started,
                   fetched, ret, progress_lock, loaded, completed_count,
                   published, collected, downloaded_files, errors>>

\* create_zip_file succeeds: temp_dir removed, zip_path returned
PackageOk ==
    /\ AllCollected
    /\ ~batch_failed(downloaded_files, errors)
    /\ zip_input' = downloaded_files
    /\ zip_called' = TRUE
    /\ temp_dir' = rmtree(temp_dir)
    /\ main_pc' = "end"
    /\ outcome' = "returned"
    /\ raise_cause' = "none"
    /\ UNCHANGED <<exc, zip_error>>
    /\ disk' = rmtree_files(disk \cup {batch_zip_path})
    /\ result_path' = batch_zip_path
    /\ UNCHANGED <<ffmpeg_available, checked>>
    /\ UNCHANGED <<video_list, max_workers, has_callback, pc, started,
                   fetched, ret, progress_lock, loaded, completed_count,
                   published, collected, downloaded_files, errors>>

\* the environment removes ffmpeg while the batch runs
ToolchainRemoved ==
    /\ main_pc = "collect"
    /\ ffmpeg_available
    /\ ffmpeg_available' = FALSE
    /\ UNCHANGED <<checked, disk, result_path>>
    /\ UNCHANGED <<video_list, max_workers, has_callback, main_pc, temp_dir,
                   pc, started, fetched, ret, progress_lock, loaded,
                   completed_count, published, collected, downloaded_files,
                   errors, zip_input, zip_called, outcome, raise_cause, exc,
                   zip_error>>

Next ==
    \/ RaiseNoVideos /\ UNCHANGED non_batch_vars
    \/ ToolchainRemoved /\ UNCHANGED non_batch_vars
    \/ SubmitAll /\ UNCHANGED non_batch_vars
    \/ \E i \in Items : StartFetch(i) /\ UNCHANGED non_batch_vars
    \/ \E i \in Items : FetchOk(i) /\ UNCHANGED non_batch_vars
    \/ \E i \in Items : FetchFail(i) /\ UNCHANGED non_batch_vars
    \/ \E i \in Items : LockAndLoad(i) /\ UNCHANGED non_batch_vars
    \/ \E i \in Items : StoreAndPublish(i) /\ UNCHANGED non_batch_vars
    \/ \E i \in Items : Collect(i) /\ UNCHANGED non_batch_vars
    \/ RaiseNoSuccess /\ UNCHANGED non_batch_vars
    \/ PackageFail /\ UNCHANGED non_batch_vars
    \/ PackageOk /\ UNCHANGED non_batch_vars

Spec == Init /\ [][Next]_vars

----
(***************************************************************************)
(* The progress hook of ProgressTracker.get_hook (progress_tracker.py) and *)
(* clean_percent_string (formatters.py).  Percent values of this component *)
(* are kept in hundredths of a percent, so that the rounding to one        *)
(* decimal of the forwarded value is visible.  A percent string is the     *)
(* sequence of its tokens.                                                 *)
(***************************************************************************)
MaxEvents == 3

VideoId == "vid"

Ansi == [t |-> "ansi", v |-> 0]      \* a colour sequence ESC [ ... m
Sp == [t |-> "sp", v |-> 0]          \* white space
Pct == [t |-> "pct", v |-> 0]        \* the character %
Txt == [t |-> "txt", v |-> 0]        \* other text, such as N/A
Num(n) == [t |-> "num", v |-> n]     \* a decimal number, in hundredths

\* the values of d.get("_percent_str", "0%") the engine is taken to emit
PercentStrs ==
    { <<Num(0), Pct>>,
      <<Ansi, Sp, Num(4004), Pct, Ansi>>,
      <<Num(5000), Pct>>,
      <<Sp, Num(9996), Pct>>,
      <<Num(10000), Pct>>,
      <<Num(10500), Pct>>,
      <<Txt>> }

HookStatuses == {"downloading", "finished", "error"}

RECURSIVE RemoveTok(_, _)
RemoveTok(s, tok) ==
    IF s = <<>> THEN <<>>
    ELSE IF Head(s).t = tok THEN RemoveTok(Tail(s), tok)
    ELSE <<Head(s)>> \o RemoveTok(Tail(s), tok)

RECURSIVE LStrip(_)
LStrip(s) ==
    IF s # <<>> /\ Head(s).t = "sp" THEN LStrip(Tail(s)) ELSE s

RECURSIVE RStrip(_)
RStrip(s) ==
    IF s # <<>> /\ s[Len(s)].t = "sp" THEN RStrip(SubSeq(s, 1, Len(s) - 1))
    ELSE s

Strip(s) == RStrip(LStrip(s))

\* float(text): the value of a single number (white space around it is
\* accepted), ValueError otherwise, which clean_percent_string turns into 0.0
FloatOrZero(s) ==
    LET t == Strip(s)
    IN  IF Len(t) = 1 /\ t[1].t = "num" THEN t[1].v ELSE 0

\* re.sub(ansi, "", s).strip(), then float(cleaned.replace("%", ""))
clean_percent_string(percent_str) ==
    FloatOrZero(RemoveTok(Strip(RemoveTok(percent_str, "ansi")), "pct"))

\* float(f"{percent:.1f}"): to the nearest tenth, in hundredths
round_1f(percent) == RoundHalfEven(percent, 10) * 10

Max(a, b) == IF a >= b THEN a ELSE b

\* `if percent >= last_percent or status == "finished":`
hook_forwards_always(status, percent, last_percent) == TRUE

hook_forwards(status, percent, last_percent) ==
    percent >= last_percent \/ status = "finished"

\* the guard of the one-time completion branch (lines 58-59)
completion_fires_always(status, percent, reported) ==
    status = "finished" \/ percent >= 10000

completion_fires(status, percent, reported) ==
    (status = "finished" \/ percent >= 10000) /\ ~reported

HookInit ==
    /\ progress = <<>>
    /\ hook_events = <<>>
    /\ forwarded = <<>>
    /\ forwarded_at = <<>>
    /\ completed_logged = 0

\* one call of progress_hook(d) with d = {status, _percent_str}
progress_hook(status, percent_str) ==
    LET percent == clean_percent_string(percent_str)
        tracked == IF VideoId \in DOMAIN progress THEN progress[VideoId]
                   ELSE [last_percent |-> 0, reported_finished |-> FALSE]
        last_percent == tracked.last_percent
        fires == completion_fires(status, percent, tracked.reported_finished)
        hook_data ==
            [id |-> VideoId, status |-> status,
             percent |-> IF fires \/ status = "finished" THEN 10000
                         ELSE round_1f(percent)]
    IN  /\ Len(hook_events) < MaxEvents
        /\ hook_events' = Append(hook_events,
                                 [status |-> status, percent_str |-> percent_str])
        /\ IF hook_forwards(status, percent, last_percent)
           THEN /\ progress' = (VideoId :>
                     [last_percent |-> Max(last_percent, percent),
                      reported_finished |-> tracked.reported_finished \/ fires])
                /\ completed_logged' = completed_logged + (IF fires THEN 1 ELSE 0)
                /\ forwarded' = Append(forwarded, hook_data)
                /\ forwarded_at' = Append(forwarded_at, Len(hook_events) + 1)
           ELSE /\ progress' = (VideoId :> tracked)
                /\ UNCHANGED <<completed_logged, forwarded, forwarded_at>>

InitHook == HookInit /\ NonHookParked

NextHook ==
    \E status \in HookStatuses, percent_str \in PercentStrs :
        progress_hook(status, percent_str) /\ UNCHANGED non_hook_vars

SpecHook == InitHook /\ [][NextHook]_vars

----
(***************************************************************************)
(* The global progress store of progress_tracker.py: update_progress,      *)
(* get_progress_status and clear_progress, each of which runs under the    *)
(* module's progress_lock and is therefore one step.  A mapping held by    *)
(* the poller is either a dictionary of its own (snap) or the global       *)
(* dictionary itself (alias).                                              *)
(***************************************************************************)
MaxUpdates == 3

StoreIds == {"a", "b"}
StoreStatuses == {"downloading", "finished"}
StorePercents == {3000, 5000}

\* the dictionaries callers pass to update_progress
Snapshots == [id : StoreIds, status : StoreStatuses, percent : StorePercents]

StoreInit ==
    /\ progress_data = <<>>
    /\ polled = [taken |-> FALSE, alias |-> FALSE, snap |-> <<>>]
    /\ polled_seen = <<>>
    /\ passed = {}
    /\ store_updates = 0

\* progress_data[video_id] = progress_info
store_put(data, progress_info) ==
    [k \in (DOMAIN data) \cup {progress_info.id} |->
        IF k = progress_info.id THEN progress_info ELSE data[k]]

update_progress(progress_info) ==
    /\ store_updates < MaxUpdates
    /\ store_updates' = store_updates + 1
    /\ progress_data' = store_put(progress_data, progress_info)
    /\ passed' = passed \cup {progress_info}
    /\ UNCHANGED <<polled, polled_seen>>

\* return progress_data.copy()
returned_alias(data) == [taken |-> TRUE, alias |-> TRUE, snap |-> <<>>]

returned_copy(data) == [taken |-> TRUE, alias |-> FALSE, snap |-> data]

get_progress_status ==
    /\ polled' = returned_copy(progress_data)
    /\ polled_seen' = progress_data
    /\ UNCHANGED <<progress_data, passed, store_updates>>

\* progress_data.clear()
clear_progress ==
    /\ progress_data' = <<>>
    /\ UNCHANGED <<polled, polled_seen, passed, store_updates>>

InitStore == StoreInit /\ NonStoreParked

NextStore ==
    \/ \E progress_info \in Snapshots :
          update_progress(progress_info) /\ UNCHANGED non_store_vars
    \/ get_progress_status /\ UNCHANGED non_store_vars
    \/ clear_progress /\ UNCHANGED non_store_vars

SpecStore == InitStore /\ [][NextStore]_vars

----
(***************************************************************************)
(* create_zip_file (file_manager.py).  A path is the sequence of its       *)
(* components; the name of an archive entry is a sequence of components    *)
(* too.  The state of the file system is fixed during one call.            *)
(***************************************************************************)
MaxFiles == 2

Paths == {<<"tmp", "a.mkv">>, <<"tmp", "b.mkv">>, <<"tmp", "sub", "a.mkv">>}
Contents == {1, 2}

RECURSIVE SeqsUpTo(_, _)
SeqsUpTo(S, n) ==
    IF n = 0 THEN {<<>>}
    ELSE LET shorter == SeqsUpTo(S, n - 1)
         IN  shorter \cup {Append(q, x) : q \in shorter, x \in S}

\* os.path.basename(file_path)
full_path(file_path) == file_path

basename(file_path) == <<file_path[Len(file_path)]>>

ZipInit ==
    /\ file_paths \in SeqsUpTo(Paths, MaxFiles)
    /\ \E existing \in SUBSET Paths : fs \in [existing -> Contents]
    /\ zip_pc = "start"
    /\ zip_idx = 0
    /\ archive = <<>>
    /\ zip_exc = NoExc

\* zipfile.ZipFile(output_path, "w", ZIP_DEFLATED) opens the destination
ZipOpen ==
    /\ zip_pc = "start"
    /\ zip_pc' = "writing"
    /\ UNCHANGED <<file_paths, fs, zip_idx, archive, zip_exc>>

\* the destination cannot be opened: the error is logged and re-raised
ZipOpenFails ==
    /\ zip_pc = "start"
    /\ zip_pc' = "raised"
    /\ zip_exc' \in ZipErrors
    /\ UNCHANGED <<file_paths, fs, zip_idx, archive>>

\* one iteration of `for file_path in file_paths`
ZipAdd_NoExistsCheck ==
    /\ zip_pc = "writing"
    /\ zip_idx < Len(file_paths)
    /\ LET file_path == file_paths[zip_idx + 1]
       IN  IF file_path \in DOMAIN fs
           THEN /\ archive' = Append(archive, [name |-> basename(file_path),
                                               content |-> fs[file_path]])
                /\ zip_idx' = zip_idx + 1
                /\ UNCHANGED <<zip_pc, zip_exc>>
           ELSE /\ zip_pc' = "raised"
                /\ zip_exc' = [kind |-> "FileNotFoundError",
                               msg |-> <<"No such file or directory">>]
                /\ UNCHANGED <<archive, zip_idx>>
    /\ UNCHANGED <<file_paths, fs>>

ZipAdd ==
    /\ zip_pc = "writing"
    /\ zip_idx < Len(file_paths)
    /\ LET file_path == file_paths[zip_idx + 1]
       IN  IF file_path \in DOMAIN fs
           THEN archive' = Append(archive, [name |-> basename(file_path),
                                            content |-> fs[file_path]])
           ELSE archive' = archive
    /\ zip_idx' = zip_idx + 1
    /\ UNCHANGED <<file_paths, fs, zip_pc, zip_exc>>

\* the loop ended: the archive is closed and the call returns
ZipClose ==
    /\ zip_pc = "writing"
    /\ zip_idx = Len(file_paths)
    /\ zip_pc' = "done"
    /\ UNCHANGED <<file_paths, fs, zip_idx, archive, zip_exc>>

InitZip == ZipInit /\ NonZipParked

NextZip ==
    \/ ZipOpen /\ UNCHANGED non_zip_vars
    \/ ZipOpenFails /\ UNCHANGED non_zip_vars
    \/ ZipAdd /\ UNCHANGED non_zip_vars
    \/ ZipClose /\ UNCHANGED non_zip_vars

SpecZip == InitZip /\ [][NextZip]_vars

----
(***************************************************************************)
(* The archive path of download_multiple_videos (lines 312-316) for two    *)
(* calls that write into the same output directory.  The clock counts half *)
(* seconds; the timestamp of the file name has a resolution of one second. *)
(***************************************************************************)
MaxClock == 3

Runs == {1, 2}

\* datetime.datetime.now().strftime("%Y%m%d_%H%M%S")
strftime_seconds(t) == t \div 2

\* os.path.join(output_dir, f"playlist_{timestamp}.zip")
make_zip_path(t) == <<"downloads", "playlist_", strftime_seconds(t), ".zip">>

NameInit ==
    /\ now = 0
    /\ run_pc = [r \in Runs |-> "idle"]
    /\ zip_path = [r \in Runs |-> <<>>]
    /\ zip_owner = <<>>

\* time passes
Tick ==
    /\ now < MaxClock
    /\ now' = now + 1
    /\ UNCHANGED <<run_pc, zip_path, zip_owner>>

\* the run computes zip_path from the current time
NameZip(r) ==
    /\ run_pc[r] = "idle"
    /\ zip_path' = [zip_path EXCEPT ![r] = make_zip_path(now)]
    /\ run_pc' = [run_pc EXCEPT ![r] = "named"]
    /\ UNCHANGED <<now, zip_owner>>

\* create_zip_file(downloaded_files, zip_path): mode "w" replaces the file
WriteZip(r) ==
    /\ run_pc[r] = "named"
    /\ zip_owner' = [q \in (DOMAIN zip_owner) \cup {zip_path[r]} |->
                        IF q = zip_path[r] THEN r ELSE zip_owner[q]]
    /\ run_pc' = [run_pc EXCEPT ![r] = "zipped"]
    /\ UNCHANGED <<now, zip_path>>

\* return zip_path
ReturnZip(r) ==
    /\ run_pc[r] = "zipped"
    /\ run_pc' = [run_pc EXCEPT ![r] = "returned"]
    /\ UNCHANGED <<now, zip_path, zip_owner>>

InitName == NameInit /\ NonNameParked

NextName ==
    \/ Tick /\ UNCHANGED non_name_vars
    \/ \E r \in Runs : NameZip(r) /\ UNCHANGED non_name_vars
    \/ \E r \in Runs : WriteZip(r) /\ UNCHANGED non_name_vars
    \/ \E r \in Runs : ReturnZip(r) /\ UNCHANGED non_name_vars

SpecName == InitName /\ [][NextName]_vars

----
(***************************************************************************)
(* download_content and handle_playlist (interface/components/download.py) *)
(* after URL and format validation.  The two core functions are taken by   *)
(* their outcome: download_single_video returns the path of the item's     *)
(* file or raises; download_multiple_videos returns the archive path when  *)
(* at least one item was fetched and raises otherwise or when packaging    *)
(* fails.  An item of the playlist is identified by its position.          *)
(***************************************************************************)
MaxPlaylist == 3
MaxSelected == 2

NoPath == <<>>

\* the path download_single_video returns for an item fetched into downloads
item_path(item) == <<"downloads", "item", item>>
\* the path download_multiple_videos returns
archive_path == <<"downloads", "playlist.zip">>

\* videos[i] for a Python index i: from 0, a negative one counts from the end
py_index(vs, i) == IF i >= 0 THEN vs[i + 1] ELSE vs[Len(vs) + i + 1]

\* videos[i] raises IndexError for an index below -len(videos)
index_error(vs, sel) ==
    sel # <<>> /\ \E k \in 1..Len(sel) : sel[k] < 0 - Len(vs)

\* [videos[i] for i in selected_videos if i < len(videos)], when no index
\* raises IndexError
RECURSIVE pick(_, _)
pick(vs, sel) ==
    IF sel = <<>> THEN <<>>
    ELSE (IF Head(sel) < Len(vs) /\ Head(sel) >= 0 - Len(vs)
          THEN <<py_index(vs, Head(sel))>> ELSE <<>>)
         \o pick(vs, Tail(sel))

\* `if selected_videos: videos = [...]`
select_videos_always(vs, sel) == pick(vs, sel)

select_videos(vs, sel) == IF sel # <<>> THEN pick(vs, sel) ELSE vs

\* `if len(videos) == 1:`
is_single_never(vs) == FALSE

is_single(vs) == Len(vs) = 1

\* the success message built from count = len(videos)
success_msg(count) ==
    [kind |-> "success", count |-> count, parallel |-> count > 1]

\* the least index a selection is drawn from
MinIndex == 0 - 2

DcInit ==
    /\ dc_entry \in {"download_content", "handle_playlist"}
    /\ info_type \in {"playlist", "video"}
    /\ dc_entry = "handle_playlist" => info_type = "playlist"
    /\ \E n \in 0..MaxPlaylist :
          /\ playlist = [k \in 1..n |-> k]
          /\ selected_videos \in SeqsUpTo(MinIndex..n, MaxSelected)
    /\ info_type = "video" => (playlist = <<>> /\ selected_videos = <<>>)
    /\ videos = <<>>
    /\ dc_pc = "start"
    /\ dc_calls = <<>>
    /\ packager_called = FALSE
    /\ fetched_count = 0
    /\ dc_result = <<>>

\* not a playlist: download_single_video(info, ...) returns or raises
DcVideo ==
    /\ dc_pc = "start"
    /\ info_type = "video"
    /\ dc_pc' = "done"
    /\ dc_calls' = Append(dc_calls, [fn |-> "download_single_video", arg |-> 0])
    /\ \E ok \in BOOLEAN :
          /\ fetched_count' = IF ok THEN 1 ELSE 0
          /\ dc_result' = IF ok THEN <<item_path(0), [kind |-> "success_video"]>>
                          ELSE <<NoPath, [kind |-> "error"]>>
    /\ UNCHANGED <<dc_entry, info_type, playlist, selected_videos, videos,
                   packager_called>>

\* nothing left after filtering: "No videos selected or found"
DcNoneSelected ==
    /\ dc_pc = "start"
    /\ info_type = "playlist"
    /\ ~index_error(playlist, selected_videos)
    /\ select_videos(playlist, selected_videos) = <<>>
    /\ videos' = <<>>
    /\ dc_pc' = "done"
    /\ dc_result' = <<NoPath, [kind |-> "none_selected"]>>
    /\ UNCHANGED <<dc_entry, info_type, playlist, selected_videos, dc_calls,
                   packager_called, fetched_count>>

\* the filtering raises IndexError: the except branch returns the error
DcIndexError ==
    /\ dc_pc = "start"
    /\ info_type = "playlist"
    /\ index_error(playlist, selected_videos)
    /\ dc_pc' = "done"
    /\ dc_result' = <<NoPath, [kind |-> "error"]>>
    /\ UNCHANGED <<dc_entry, info_type, playlist, selected_videos, videos,
                   dc_calls, packager_called, fetched_count>>

\* one item left: download_single_video(videos[0], ...) returns or raises
DcSingle ==
    /\ dc_pc = "start"
    /\ info_type = "playlist"
    /\ ~index_error(playlist, selected_videos)
    /\ LET vs == select_videos(playlist, selected_videos)
       IN  /\ vs # <<>>
           /\ is_single(vs)
           /\ videos' = vs
           /\ dc_calls' = Append(dc_calls, [fn |-> "download_single_video",
                                            arg |-> vs[1]])
           /\ \E ok \in BOOLEAN :
                 /\ fetched_count' = IF ok THEN 1 ELSE 0
                 /\ dc_result' = IF ok
                                 THEN <<item_path(vs[1]), success_msg(Len(vs))>>
                                 ELSE <<NoPath, [kind |-> "error"]>>
    /\ dc_pc' = "done"
    /\ UNCHANGED <<dc_entry, info_type, playlist, selected_videos,
                   packager_called>>

\* several items left: download_multiple_videos(videos, ...) fetches k of
\* them; it raises when k = 0 or when create_zip_file raises
DcMultiple ==
    /\ dc_pc = "start"
    /\ info_type = "playlist"
    /\ ~index_error(playlist, selected_videos)
    /\ LET vs == select_videos(playlist, selected_videos)
       IN  /\ vs # <<>>
           /\ ~is_single(vs)
           /\ videos' = vs
           /\ dc_calls' = Append(dc_calls, [fn |-> "download_multiple_videos",
                                            arg |-> vs])
           /\ \E k \in 0..Len(vs), zip_ok \in BOOLEAN :
                 /\ fetched_count' = k
                 /\ packager_called' = (k > 0)
                 /\ dc_result' = IF k > 0 /\ zip_ok
                                 THEN <<archive_path, success_msg(Len(vs))>>
                                 ELSE <<NoPath, [kind |-> "error"]>>
    /\ dc_pc' = "done"
    /\ UNCHANGED <<dc_entry, info_type, playlist, selected_videos>>

InitDc == DcInit /\ NonDcParked

NextDc ==
    \/ DcVideo /\ UNCHANGED non_dc_vars
    \/ DcNoneSelected /\ UNCHANGED non_dc_vars
    \/ DcIndexError /\ UNCHANGED non_dc_vars
    \/ DcSingle /\ UNCHANGED non_dc_vars
    \/ DcMultiple /\ UNCHANGED non_dc_vars

SpecDc == InitDc /\ [][NextDc]_vars

----
(***************************************************************************)
(* get_download_options (downloader.py): the engine options built from the *)
(* format settings, or the ValueError it raises.  Text parameters are      *)
(* strings, None is NoValue; a quality is the sequence of its parts (a     *)
(* number, the letter p, the word best, other text).  The output template, *)
(* the progress hook and the ffmpeg location are the same for every call   *)
(* compared here and are left out of the options.                          *)
(***************************************************************************)
MaxCalls == 2

NoValue == "None"

PTok == [t |-> "p", v |-> 0]          \* the letter p
BestTok == [t |-> "best", v |-> 0]    \* the word best
NoneTok == [t |-> "none", v |-> 0]    \* None passed as video_quality

Q720p == <<Num(720), PTok>>
Q1080p == <<Num(1080), PTok>>
QBest == <<BestTok>>
QNone == <<NoneTok>>
Q4k == <<Num(4), Txt>>

\* CONFIG["supported_formats"] and CONFIG["supported_audio_formats"]
supported_formats == {"video", "audio"}
supported_audio_formats == {"mp3", "m4a", "wav", "flac", "aac"}

\* the values the parameters are drawn from
FormatTypes == {"video", "audio", "gif"}
AudioFormats == {NoValue, "mp3", "flac", "ogg"}
VideoQualities == {QNone, QBest, Q720p, Q1080p, Q4k}

ValueError(message) ==
    [kind |-> "ValueError", msg |-> message, format |-> "none", height |-> 0,
     merge_output_format |-> "none", preferredcodec |-> "none"]

\* int(video_quality.replace('p', '')): the number when a single number is
\* left, -1 when int() raises ValueError
quality_height(video_quality) ==
    LET digits == RemoveTok(video_quality, "p")
    IN  IF Len(digits) = 1 /\ digits[1].t = "num" THEN digits[1].v ELSE -1

\* the options get_download_options returns, or the ValueError it raises;
\* height 0 stands for a selector without a height ceiling
get_download_options_strict(format_type, audio_format, video_quality) ==
    IF format_type \notin supported_formats
    THEN ValueError(<<"Unsupported format: ", format_type>>)
    ELSE IF audio_format = NoValue \/ audio_format \notin supported_audio_formats
    THEN ValueError(<<"Unsupported audio format: ", audio_format>>)
    ELSE IF format_type = "video"
    THEN IF video_quality = QNone \/ video_quality = QBest
         THEN [kind |-> "options", msg |-> <<>>,
               format |-> "bestvideo+bestaudio", height |-> 0,
               merge_output_format |-> "mkv", preferredcodec |-> "none"]
         ELSE IF quality_height(video_quality) < 0
         THEN ValueError(<<"invalid literal for int()">>)
         ELSE [kind |-> "options", msg |-> <<>>,
               format |-> "bestvideo[height<=H]+bestaudio",
               height |-> quality_height(video_quality),
               merge_output_format |-> "mkv", preferredcodec |-> "none"]
    ELSE [kind |-> "options", msg |-> <<>>,
          format |-> "bestaudio/best", height |-> 0,
          merge_output_format |-> "none", preferredcodec |-> audio_format]

get_download_options(format_type, audio_format, video_quality) ==
    IF format_type \notin supported_formats
    THEN ValueError(<<"Unsupported format: ", format_type>>)
    ELSE IF format_type = "audio"
            /\ (audio_format = NoValue
                \/ audio_format \notin supported_audio_formats)
    THEN ValueError(<<"Unsupported audio format: ", audio_format>>)
    ELSE IF format_type = "video"
    THEN IF video_quality = QNone \/ video_quality = QBest
         THEN [kind |-> "options", msg |-> <<>>,
               format |-> "bestvideo+bestaudio", height |-> 0,
               merge_output_format |-> "mkv", preferredcodec |-> "none"]
         ELSE IF quality_height(video_quality) < 0
         THEN ValueError(<<"invalid literal for int()">>)
         ELSE [kind |-> "options", msg |-> <<>>,
               format |-> "bestvideo[height<=H]+bestaudio",
               height |-> quality_height(video_quality),
               merge_output_format |-> "mkv", preferredcodec |-> "none"]
    ELSE [kind |-> "options", msg |-> <<>>,
          format |-> "bestaudio/best", height |-> 0,
          merge_output_format |-> "none", preferredcodec |-> audio_format]

OptsInit == opt_calls = <<>>

\* one call of get_download_options
CallOptions(format_type, audio_format, video_quality) ==
    /\ Len(opt_calls) < MaxCalls
    /\ opt_calls' = Append(opt_calls,
          [format_type |-> format_type, audio_format |-> audio_format,
           video_quality |-> video_quality,
           result |-> get_download_options(format_type, audio_format,
                                           video_quality)])

InitOpts == OptsInit /\ NonOptsParked

NextOpts ==
    \E format_type \in FormatTypes, audio_format \in AudioFormats,
       video_quality \in VideoQualities :
        CallOptions(format_type, audio_format, video_quality)
            /\ UNCHANGED non_opts_vars

SpecOpts == InitOpts /\ [][NextOpts]_vars

----
(***************************************************************************)
(* download_single_video (downloader.py), one call from its first line to  *)
(* its return or raise.  dsv_trace records the effects in the order the    *)
(* body performs them: "mkdtemp", "makedirs", "get_video_info",            *)
(* "get_download_options", "ydl.download", "find_downloaded_files".  The   *)
(* engine calls the progress hook once per event while ydl.download runs.  *)
(***************************************************************************)
MaxDsvEvents == 2

\* the callers of download_single_video and the progress_callback each
\* passes: download_content of components/download.py passes none, the one
\* of app.py passes update_progress
DsvCallers == {"components.download_content", "app.download_content", "other"}

caller_callback(caller) ==
    IF caller = "components.download_content" THEN {"none"}
    ELSE IF caller = "app.download_content" THEN {"update_progress"}
    ELSE {"none", "update_progress"}

\* both download_content functions pass output_dir=downloads_dir
caller_output_dir(caller) ==
    IF caller = "other" THEN {"omitted", "given"} ELSE {"given"}

\* both download_content functions pass the info dictionary, not the URL
caller_input(caller) ==
    IF caller = "other" THEN {"url", "dict"} ELSE {"dict"}

\* both download_content functions return "Invalid format type" themselves
\* for a format_type other than video and audio
caller_formats(caller) ==
    IF caller = "other" THEN FormatTypes ELSE supported_formats

\* both download_content functions set the defaults of the active mode and
\* pass None for the parameter of the other mode
caller_normalised(caller, args) ==
    caller # "other"
    => IF args.format_type = "video"
       THEN args.audio_format = NoValue /\ args.video_quality # QNone
       ELSE args.audio_format # NoValue /\ args.video_quality = QNone

\* the progress events the engine is taken to emit
DsvEngineEvents ==
    { [status |-> "downloading", percent_str |-> <<Num(5000), Pct>>],
      [status |-> "finished", percent_str |-> <<Num(10000), Pct>>] }

\* `x = x or default` at the top of download_single_video
or_default(value, none, default) == IF value = none THEN default ELSE value

defaulted(args) ==
    IF args.format_type = "video"
    THEN [format_type |-> args.format_type,
          audio_format |-> or_default(args.audio_format, NoValue, "mp3"),
          video_quality |-> or_default(args.video_quality, QNone, Q1080p)]
    ELSE IF args.format_type = "audio"
    THEN [format_type |-> args.format_type,
          audio_format |-> or_default(args.audio_format, NoValue, "mp3"),
          video_quality |-> or_default(args.video_quality, QNone, Q720p)]
    ELSE args

FfmpegNotFound ==
    VideoDownloadException(<<"FFmpeg not found. This app requires FFmpeg for audio/video processing.">>)

\* `except Exception as e:` of download_single_video:
\* raise VideoDownloadException(f"Error downloading {video_url}: {str(e)}")
single_wrap(e) ==
    VideoDownloadException(<<"Error downloading ", "video_url", ": ">> \o e.msg)

DsvRunning == [kind |-> "none", cause |-> "none", exc |-> NoExc]
DsvRaised(cause, e) == [kind |-> "raised", cause |-> cause, exc |-> e]
DsvReturned == [kind |-> "returned", cause |-> "none", exc |-> NoExc]

DsvInit ==
    /\ dsv_caller \in DsvCallers
    /\ dsv_input \in caller_input(dsv_caller)
    /\ dsv_format \in [format_type : caller_formats(dsv_caller),
                       audio_format : AudioFormats,
                       video_quality : VideoQualities]
    /\ caller_normalised(dsv_caller, dsv_format)
    /\ dsv_output_dir \in caller_output_dir(dsv_caller)
    /\ dsv_callback \in caller_callback(dsv_caller)
    /\ dsv_ffmpeg \in BOOLEAN
    /\ dsv_pc = "start"
    /\ dsv_trace = <<>>
    /\ dsv_tmp = "none"
    /\ dsv_tracker = <<>>
    /\ dsv_events = <<>>
    /\ dsv_store = <<>>
    /\ dsv_outcome = DsvRunning

\* check_ffmpeg_availability() is false: raise before the try block
DsvFfmpegMissing_AfterMkdtemp ==
    /\ dsv_pc = "start"
    /\ ~dsv_ffmpeg
    /\ dsv_tmp' = IF dsv_output_dir = "omitted" THEN "exists" ELSE dsv_tmp
    /\ dsv_trace' = dsv_trace
                    \o (IF dsv_output_dir = "omitted" THEN <<"mkdtemp">>
                        ELSE <<>>) \o <<"makedirs">>
    /\ dsv_pc' = "done"
    /\ dsv_outcome' = DsvRaised("ffmpeg", FfmpegNotFound)
    /\ UNCHANGED <<dsv_caller, dsv_input, dsv_format, dsv_output_dir,
                   dsv_callback, dsv_ffmpeg, dsv_tracker, dsv_events,
                   dsv_store>>

DsvFfmpegMissing ==
    /\ dsv_pc = "start"
    /\ ~dsv_ffmpeg
    /\ dsv_pc' = "done"
    /\ dsv_outcome' = DsvRaised("ffmpeg", FfmpegNotFound)
    /\ UNCHANGED <<dsv_caller, dsv_input, dsv_format, dsv_output_dir,
                   dsv_callback, dsv_ffmpeg, dsv_trace, dsv_tmp, dsv_tracker,
                   dsv_events, dsv_store>>

\* `if output_dir is None: output_dir = tempfile.mkdtemp()`, then
\* ensure_directory_exists(output_dir), which re-raises what os.makedirs
\* raises; both are outside the try block
DsvMakeDir ==
    /\ dsv_pc = "start"
    /\ dsv_ffmpeg
    /\ dsv_tmp' = IF dsv_output_dir = "omitted" THEN "exists" ELSE dsv_tmp
    /\ dsv_trace' = dsv_trace
                    \o (IF dsv_output_dir = "omitted" THEN <<"mkdtemp">>
                        ELSE <<>>) \o <<"makedirs">>
    /\ \E created \in BOOLEAN :
          /\ dsv_output_dir = "omitted" => created
          /\ IF created
             THEN dsv_pc' = "info" /\ UNCHANGED dsv_outcome
             ELSE /\ dsv_pc' = "done"
                  /\ dsv_outcome' = DsvRaised("makedirs",
                        [kind |-> "OSError", msg |-> <<"Permission denied">>])
    /\ UNCHANGED <<dsv_caller, dsv_input, dsv_format, dsv_output_dir,
                   dsv_callback, dsv_ffmpeg, dsv_tracker, dsv_events,
                   dsv_store>>

\* a dictionary is used as the info; a URL is resolved by get_video_info,
\* which returns a video, returns a playlist (rejected) or raises
DsvInfo ==
    /\ dsv_pc = "info"
    /\ \E info \in {"video", "playlist", "error"} :
          /\ dsv_input = "dict" => info = "video"
          /\ dsv_trace' = IF dsv_input = "dict" THEN dsv_trace
                          ELSE Append(dsv_trace, "get_video_info")
          /\ IF info = "video"
             THEN dsv_pc' = "opts" /\ UNCHANGED dsv_outcome
             ELSE /\ dsv_pc' = "done"
                  /\ dsv_outcome' =
                        IF info = "playlist"
                        THEN DsvRaised("playlist", single_wrap(
                                VideoDownloadException(
                                   <<"Expected single video, got playlist">>)))
                        ELSE DsvRaised("info", single_wrap(
                                VideoDownloadException(
                                   <<"Error extracting info">>)))
    /\ UNCHANGED <<dsv_caller, dsv_input, dsv_format, dsv_output_dir,
                   dsv_callback, dsv_ffmpeg, dsv_tmp, dsv_tracker, dsv_events,
                   dsv_store>>

\* ProgressTracker().get_hook(video_id, progress_callback), then
\* get_download_options(...); its ValueError is caught by the except branch.
\* With options built, yt_dlp.YoutubeDL(ydl_opts).download starts
DsvOptions ==
    /\ dsv_pc = "opts"
    /\ LET args == defaulted(dsv_format)
           ydl_opts == get_download_options(args.format_type,
                                            args.audio_format,
                                            args.video_quality)
       IN  IF ydl_opts.kind = "ValueError"
           THEN /\ dsv_pc' = "done"
                /\ dsv_trace' = Append(dsv_trace, "get_download_options")
                /\ dsv_outcome' = DsvRaised("options", single_wrap(ydl_opts))
           ELSE /\ dsv_pc' = "engine"
                /\ dsv_trace' = dsv_trace
                                \o <<"get_download_options", "ydl.download">>
                /\ UNCHANGED dsv_outcome
    /\ UNCHANGED <<dsv_caller, dsv_input, dsv_format, dsv_output_dir,
                   dsv_callback, dsv_ffmpeg, dsv_tmp, dsv_tracker, dsv_events,
                   dsv_store>>

\* the engine emits a progress event: progress_hook(d) runs, and calls
\* progress_callback when there is one (`if callback:`)
DsvEvent(d) ==
    /\ dsv_pc = "engine"
    /\ Len(dsv_events) < MaxDsvEvents
    /\ dsv_events' = Append(dsv_events, d)
    /\ LET percent == clean_percent_string(d.percent_str)
           tracked == IF dsv_tracker = <<>>
                      THEN [last_percent |-> 0, reported_finished |-> FALSE]
                      ELSE dsv_tracker
           fires == completion_fires(d.status, percent,
                                     tracked.reported_finished)
           snapshot == [id |-> VideoId, status |-> d.status,
                        percent |-> IF fires \/ d.status = "finished"
                                    THEN 10000 ELSE round_1f(percent)]
       IN  IF hook_forwards(d.status, percent, tracked.last_percent)
           THEN /\ dsv_tracker' =
                      [last_percent |-> Max(tracked.last_percent, percent),
                       reported_finished |->
                           tracked.reported_finished \/ fires]
                /\ dsv_store' = IF dsv_callback = "update_progress"
                                THEN store_put(dsv_store, snapshot)
                                ELSE dsv_store
           ELSE dsv_tracker' = tracked /\ UNCHANGED dsv_store
    /\ UNCHANGED <<dsv_caller, dsv_input, dsv_format, dsv_output_dir,
                   dsv_callback, dsv_ffmpeg, dsv_pc, dsv_trace, dsv_tmp,
                   dsv_outcome>>

\* ydl.download raises: the except branch wraps the error
DsvEngineFail ==
    /\ dsv_pc = "engine"
    /\ dsv_pc' = "done"
    /\ dsv_outcome' = DsvRaised("engine", single_wrap(
                         [kind |-> "DownloadError",
                          msg |-> <<"ERROR: unable to download video data">>]))
    /\ UNCHANGED <<dsv_caller, dsv_input, dsv_format, dsv_output_dir,
                   dsv_callback, dsv_ffmpeg, dsv_trace, dsv_tmp, dsv_tracker,
                   dsv_events, dsv_store>>

\* ydl.download returns; the engine reports the end of a download by an
\* event of status "finished"
DsvEngineOk ==
    /\ dsv_pc = "engine"
    /\ dsv_events # <<>>
    /\ dsv_events[Len(dsv_events)].status = "finished"
    /\ dsv_pc' = "find"
    /\ UNCHANGED <<dsv_caller, dsv_input, dsv_format, dsv_output_dir,
                   dsv_callback, dsv_ffmpeg, dsv_trace, dsv_tmp, dsv_tracker,
                   dsv_events, dsv_store, dsv_outcome>>

\* find_downloaded_files(output_dir, video_title): the first match is
\* returned, "No file was downloaded" is raised (and wrapped) without one
DsvFind ==
    /\ dsv_pc = "find"
    /\ dsv_trace' = Append(dsv_trace, "find_downloaded_files")
    /\ dsv_pc' = "done"
    /\ \E found \in BOOLEAN :
          dsv_outcome' =
              IF found THEN DsvReturned
              ELSE DsvRaised("no_output", single_wrap(
                      VideoDownloadException(<<"No file was downloaded">>)))
    /\ UNCHANGED <<dsv_caller, dsv_input, dsv_format, dsv_output_dir,
                   dsv_callback, dsv_ffmpeg, dsv_tmp, dsv_tracker, dsv_events,
                   dsv_store>>

InitDsv == DsvInit /\ NonDsvParked

NextDsv ==
    \/ DsvFfmpegMissing /\ UNCHANGED non_dsv_vars
    \/ DsvMakeDir /\ UNCHANGED non_dsv_vars
    \/ DsvInfo /\ UNCHANGED non_dsv_vars
    \/ DsvOptions /\ UNCHANGED non_dsv_vars
    \/ \E d \in DsvEngineEvents : DsvEvent(d) /\ UNCHANGED non_dsv_vars
    \/ DsvEngineFail /\ UNCHANGED non_dsv_vars
    \/ DsvEngineOk /\ UNCHANGED non_dsv_vars
    \/ DsvFind /\ UNCHANGED non_dsv_vars

SpecDsv == InitDsv /\ [][NextDsv]_vars

----
(***************************************************************************)
(* Output discovery of download_single_video (downloader.py 217-242) for   *)
(* two items fetched into the same work directory, as the workers of one   *)
(* batch are (all of them receive temp_dir).  A file name is the sequence  *)
(* of its parts: the parts of the title, then the extension, then ".part"  *)
(* for a partial download.  os.listdir returns the names in any order.     *)
(***************************************************************************)
DiscItems == {1, 2}

\* sanitized titles: equal ones, one a prefix of another, unrelated ones
DiscTitles == {<<"a">>, <<"a", "b">>, <<"c">>}

\* a file left in the directory by an earlier download; writer 0
OldFile == <<"a", ".webm">>

\* the file the engine writes for a title (outtmpl is the title; the
\* container extension is added on merge) and its partial form
media_file(title) == title \o <<".mkv">>
part_file(title) == title \o <<".mkv", ".part">>

\* str.startswith and str.endswith on names
StartsWith(name, prefix) ==
    Len(name) >= Len(prefix) /\ SubSeq(name, 1, Len(prefix)) = prefix
EndsWith(name, suffix) ==
    Len(name) >= 1 /\ name[Len(name)] = suffix

\* the orders in which os.listdir can return the names of a directory
Listings(names) ==
    {l \in SeqsUpTo(names, Cardinality(names)) :
        Len(l) = Cardinality(names) /\ {l[k] : k \in 1..Len(l)} = names}

\* find_downloaded_files(directory, prefix) run on a listing
RECURSIVE find_downloaded_files_keep_part(_, _)
find_downloaded_files_keep_part(listing, prefix) ==
    IF listing = <<>> THEN <<>>
    ELSE (IF StartsWith(Head(listing), prefix)
          THEN <<Head(listing)>> ELSE <<>>)
         \o find_downloaded_files_keep_part(Tail(listing), prefix)

RECURSIVE find_downloaded_files(_, _)
find_downloaded_files(listing, prefix) ==
    IF listing = <<>> THEN <<>>
    ELSE (IF StartsWith(Head(listing), prefix)
             /\ ~EndsWith(Head(listing), ".part")
          THEN <<Head(listing)>> ELSE <<>>)
         \o find_downloaded_files(Tail(listing), prefix)

NoFileDownloaded ==
    single_wrap(VideoDownloadException(<<"No file was downloaded">>))

DiscInit ==
    /\ disc_titles \in [DiscItems -> DiscTitles]
    /\ disc_dir \in {<<>>, [n \in {OldFile} |-> 0]}
    /\ disc_pc = [i \in DiscItems |-> "engine"]
    /\ disc_listing = [i \in DiscItems |-> <<>>]
    /\ disc_result = [i \in DiscItems |->
                         [kind |-> "none", exc |-> NoExc, path |-> NoFile]]

\* ydl.download([video_url]) returns, having left the media file, only a
\* partial file, or nothing in the directory
DiscEngine(i) ==
    /\ disc_pc[i] = "engine"
    /\ disc_pc' = [disc_pc EXCEPT ![i] = "find"]
    /\ \E left \in {"media", "part", "nothing"} :
          LET name == IF left = "media" THEN media_file(disc_titles[i])
                      ELSE part_file(disc_titles[i])
          IN  disc_dir' =
                 IF left = "nothing" THEN disc_dir
                 ELSE [n \in (DOMAIN disc_dir) \cup {name} |->
                          IF n = name THEN i ELSE disc_dir[n]]
    /\ UNCHANGED <<disc_titles, disc_listing, disc_result>>

\* downloaded_files = find_downloaded_files(output_dir, video_title); raise
\* "No file was downloaded" when empty, else return
\* os.path.join(output_dir, downloaded_files[0])
DiscFind(i) ==
    /\ disc_pc[i] = "find"
    /\ disc_pc' = [disc_pc EXCEPT ![i] = "done"]
    /\ \E listing \in Listings(DOMAIN disc_dir) :
          LET downloaded == find_downloaded_files(listing, disc_titles[i])
          IN  /\ disc_listing' = [disc_listing EXCEPT ![i] = listing]
              /\ disc_result' = [disc_result EXCEPT ![i] =
                    IF downloaded = <<>>
                    THEN [kind |-> "raised", exc |-> NoFileDownloaded,
                          path |-> NoFile]
                    ELSE [kind |-> "returned", exc |-> NoExc,
                          path |-> <<"output_dir">> \o downloaded[1]]]
    /\ UNCHANGED <<disc_titles, disc_dir>>

InitDisc == DiscInit /\ NonDiscParked

NextDisc ==
    \/ \E i \in DiscItems : DiscEngine(i) /\ UNCHANGED non_disc_vars
    \/ \E i \in DiscItems : DiscFind(i) /\ UNCHANGED non_disc_vars

SpecDisc == InitDisc /\ [][NextDisc]_vars

----
(***************************************************************************)
(* The path of the format settings from the interface to the engine        *)
(* options: on_download (gradio_app.py) calls download_content             *)
(* (components/download.py), which calls download_single_video or, through *)
(* download_multiple_videos, its workers; download_single_video applies    *)
(* its defaults and calls get_download_options.                            *)
(***************************************************************************)
\* the choices of the format controls of the interface
UiFormats == {"video", "audio"}
UiAudioFormats == supported_audio_formats
Quality(h) == <<Num(h), PTok>>
UiQualities ==
    {Quality(h) : h \in {240, 360, 480, 720, 1080, 1440, 2160}} \cup {QBest}

\* on_download: "For video tab, ensure we use 1080p quality"
on_download(request) ==
    IF request.format_type = "video"
    THEN [request EXCEPT !.video_quality = Q1080p, !.audio_format = NoValue]
    ELSE [request EXCEPT !.video_quality = QNone]

\* download_content: defaults of the active mode, None for the other one
download_content_format(args) ==
    IF args.format_type = "video"
    THEN [args EXCEPT !.video_quality = or_default(@, QNone, Q1080p),
                      !.audio_format = NoValue]
    ELSE [args EXCEPT !.audio_format = or_default(@, NoValue, "mp3"),
                      !.video_quality = QNone]

UiInit ==
    /\ ui_request \in [format_type : UiFormats,
                       audio_format : UiAudioFormats,
                       video_quality : UiQualities]
    /\ ui_pc = "clicked"
    /\ ui_args = <<>>
    /\ ui_opts = <<>>

\* on_download adjusts the settings and calls download_content
UiOnDownload ==
    /\ ui_pc = "clicked"
    /\ ui_args' = on_download(ui_request)
    /\ ui_pc' = "called"
    /\ UNCHANGED <<ui_request, ui_opts>>

\* download_content adjusts them and calls the core downloader
UiDownloadContent ==
    /\ ui_pc = "called"
    /\ ui_args' = download_content_format(ui_args)
    /\ ui_pc' = "normalised"
    /\ UNCHANGED <<ui_request, ui_opts>>

\* download_single_video applies its defaults and builds the options
UiBuildOptions ==
    /\ ui_pc = "normalised"
    /\ ui_args' = defaulted(ui_args)
    /\ ui_opts' = get_download_options(defaulted(ui_args).format_type,
                                       defaulted(ui_args).audio_format,
                                       defaulted(ui_args).video_quality)
    /\ ui_pc' = "built"
    /\ UNCHANGED ui_request

InitUi == UiInit /\ NonUiParked

NextUi ==
    \/ UiOnDownload /\ UNCHANGED non_ui_vars
    \/ UiDownloadContent /\ UNCHANGED non_ui_vars
    \/ UiBuildOptions /\ UNCHANGED non_ui_vars

SpecUi == InitUi /\ [][NextUi]_vars

----
(***************************************************************************)
(* Two download_content calls of app.py running at the same time (the      *)
(* interface serves each request in a thread of its own).  Each call       *)
(* clears the global progress store when it starts and then publishes the  *)
(* snapshots of its own item through update_progress; every access to the  *)
(* store is made under the module's progress_lock and is one step.         *)
(***************************************************************************)
MaxSent == 3

Sessions == {1, 2}

\* the id of the item a call downloads
session_id(s) == IF s = 1 THEN "a" ELSE "b"

\* the snapshots a call publishes, in order
session_snapshot(s, k) ==
    [id |-> session_id(s),
     status |-> "downloading",
     percent |-> k * 2500]

SessInit ==
    /\ sess_pc = [s \in Sessions |-> "idle"]
    /\ sess_store = <<>>
    /\ sess_sent = [s \in Sessions |-> 0]

\* download_content starts: `with progress_lock: progress_data.clear()`
SessStart(s) ==
    /\ sess_pc[s] = "idle"
    /\ sess_pc' = [sess_pc EXCEPT ![s] = "running"]
    /\ sess_store' = <<>>
    /\ UNCHANGED sess_sent

\* the progress hook of the call's download calls update_progress
SessPublish(s) ==
    /\ sess_pc[s] = "running"
    /\ sess_sent[s] < MaxSent
    /\ sess_sent' = [sess_sent EXCEPT ![s] = @ + 1]
    /\ sess_store' = store_put(sess_store,
                               session_snapshot(s, sess_sent[s] + 1))
    /\ UNCHANGED sess_pc

\* download_content returns
SessEnd(s) ==
    /\ sess_pc[s] = "running"
    /\ sess_pc' = [sess_pc EXCEPT ![s] = "ended"]
    /\ UNCHANGED <<sess_store, sess_sent>>

InitSess == SessInit /\ NonSessParked

NextSess ==
    \/ \E s \in Sessions : SessStart(s) /\ UNCHANGED non_sess_vars
    \/ \E s \in Sessions : SessPublish(s) /\ UNCHANGED non_sess_vars
    \/ \E s \in Sessions : SessEnd(s) /\ UNCHANGED non_sess_vars

SpecSess == InitSess /\ [][NextSess]_vars

----
(***************************************************************************)
(* The locks of a batch download started by app.py with                    *)
(* progress_callback = update_progress.  batch_lock is the progress_lock   *)
(* local to download_multiple_videos; store_lock is the module-level       *)
(* progress_lock guarding progress_data.  Both are threading.Lock objects: *)
(* not reentrant, released at the end of their `with` block.  The threads  *)
(* are the pool's workers and one poller calling get_progress_status.      *)
(***************************************************************************)
MaxHooks == 1
MaxPolls == 2

Workers == {"w1", "w2"}
Poller == "poller"
Threads == Workers \cup {Poller}

Free == "free"
batch_lock == "batch_lock"
store_lock == "store_lock"

callback_lock_same == batch_lock
\* the lock update_progress takes: the module's own progress_lock
callback_lock == store_lock

acquire(locks, l, t) == [locks EXCEPT ![l] = t]
release(locks, l) == [locks EXCEPT ![l] = Free]

LkInit ==
    /\ lk_pc = [t \in Threads |-> IF t = Poller THEN "idle" ELSE "fetching"]
    /\ lk_locks = [l \in {batch_lock, store_lock} |-> Free]
    /\ lk_hooks = [w \in Workers |-> 0]
    /\ lk_polls = 0
    /\ lk_completed = 0

\* the engine calls the item's progress hook, which calls update_progress
LkHookRequest(w) ==
    /\ lk_pc[w] = "fetching"
    /\ lk_hooks[w] < MaxHooks
    /\ lk_pc' = [lk_pc EXCEPT ![w] = "hook_wait"]
    /\ lk_hooks' = [lk_hooks EXCEPT ![w] = @ + 1]
    /\ UNCHANGED <<lk_locks, lk_polls, lk_completed>>

\* update_progress: `with progress_lock:` entered
LkHookAcquire(w) ==
    /\ lk_pc[w] = "hook_wait"
    /\ lk_locks[callback_lock] = Free
    /\ lk_locks' = acquire(lk_locks, callback_lock, w)
    /\ lk_pc' = [lk_pc EXCEPT ![w] = "hook_in"]
    /\ UNCHANGED <<lk_hooks, lk_polls, lk_completed>>

\* update_progress: the `with` block left
LkHookRelease(w) ==
    /\ lk_pc[w] = "hook_in"
    /\ lk_locks' = release(lk_locks, callback_lock)
    /\ lk_pc' = [lk_pc EXCEPT ![w] = "fetching"]
    /\ UNCHANGED <<lk_hooks, lk_polls, lk_completed>>

\* download_single_video returns: the worker goes for the batch lock
LkFetchOk(w) ==
    /\ lk_pc[w] = "fetching"
    /\ lk_pc' = [lk_pc EXCEPT ![w] = "batch_wait"]
    /\ UNCHANGED <<lk_locks, lk_hooks, lk_polls, lk_completed>>

\* download_single_video raises: the worker returns without any lock
LkFetchFail(w) ==
    /\ lk_pc[w] = "fetching"
    /\ lk_pc' = [lk_pc EXCEPT ![w] = "done"]
    /\ UNCHANGED <<lk_locks, lk_hooks, lk_polls, lk_completed>>

\* `with progress_lock:` of the worker entered; completed_count += 1
LkBatchAcquire(w) ==
    /\ lk_pc[w] = "batch_wait"
    /\ lk_locks[batch_lock] = Free
    /\ lk_locks' = acquire(lk_locks, batch_lock, w)
    /\ lk_completed' = lk_completed + 1
    /\ lk_pc' = [lk_pc EXCEPT ![w] = "callback_wait"]
    /\ UNCHANGED <<lk_hooks, lk_polls>>

\* update_overall_progress calls update_progress, which enters its lock
LkCallbackAcquire(w) ==
    /\ lk_pc[w] = "callback_wait"
    /\ lk_locks[callback_lock] = Free
    /\ lk_locks' = acquire(lk_locks, callback_lock, w)
    /\ lk_pc' = [lk_pc EXCEPT ![w] = "callback_in"]
    /\ UNCHANGED <<lk_hooks, lk_polls, lk_completed>>

\* update_progress returns to update_overall_progress
LkCallbackRelease(w) ==
    /\ lk_pc[w] = "callback_in"
    /\ lk_locks' = release(lk_locks, callback_lock)
    /\ lk_pc' = [lk_pc EXCEPT ![w] = "batch_in"]
    /\ UNCHANGED <<lk_hooks, lk_polls, lk_completed>>

\* the worker's `with` block left; the worker returns
LkBatchRelease(w) ==
    /\ lk_pc[w] = "batch_in"
    /\ lk_locks' = release(lk_locks, batch_lock)
    /\ lk_pc' = [lk_pc EXCEPT ![w] = "done"]
    /\ UNCHANGED <<lk_hooks, lk_polls, lk_completed>>

\* the interface asks for the progress: get_progress_status called
LkPollRequest ==
    /\ lk_pc[Poller] = "idle"
    /\ lk_polls < MaxPolls
    /\ lk_polls' = lk_polls + 1
    /\ lk_pc' = [lk_pc EXCEPT ![Poller] = "poll_wait"]
    /\ UNCHANGED <<lk_locks, lk_hooks, lk_completed>>

\* get_progress_status: `with progress_lock:` entered
LkPollAcquire ==
    /\ lk_pc[Poller] = "poll_wait"
    /\ lk_locks[store_lock] = Free
    /\ lk_locks' = acquire(lk_locks, store_lock, Poller)
    /\ lk_pc' = [lk_pc EXCEPT ![Poller] = "poll_in"]
    /\ UNCHANGED <<lk_hooks, lk_polls, lk_completed>>

\* get_progress_status returns the copy
LkPollRelease ==
    /\ lk_pc[Poller] = "poll_in"
    /\ lk_locks' = release(lk_locks, store_lock)
    /\ lk_pc' = [lk_pc EXCEPT ![Poller] = "idle"]
    /\ UNCHANGED <<lk_hooks, lk_polls, lk_completed>>

\* every step a worker can take
LkWorker(w) ==
    \/ LkHookRequest(w)
    \/ LkHookAcquire(w)
    \/ LkHookRelease(w)
    \/ LkFetchOk(w)
    \/ LkFetchFail(w)
    \/ LkBatchAcquire(w)
    \/ LkCallbackAcquire(w)
    \/ LkCallbackRelease(w)
    \/ LkBatchRelease(w)

\* every step the poller can take
LkPoller == LkPollRequest \/ LkPollAcquire \/ LkPollRelease

InitLk == LkInit /\ NonLkParked

NextLk ==
    \/ \E w \in Workers : LkHookRequest(w) /\ UNCHANGED non_lk_vars
    \/ \E w \in Workers : LkHookAcquire(w) /\ UNCHANGED non_lk_vars
    \/ \E w \in Workers : LkHookRelease(w) /\ UNCHANGED non_lk_vars
    \/ \E w \in Workers : LkFetchOk(w) /\ UNCHANGED non_lk_vars
    \/ \E w \in Workers : LkFetchFail(w) /\ UNCHANGED non_lk_vars
    \/ \E w \in Workers : LkBatchAcquire(w) /\ UNCHANGED non_lk_vars
    \/ \E w \in Workers : LkCallbackAcquire(w) /\ UNCHANGED non_lk_vars
    \/ \E w \in Workers : LkCallbackRelease(w) /\ UNCHANGED non_lk_vars
    \/ \E w \in Workers : LkBatchRelease(w) /\ UNCHANGED non_lk_vars
    \/ LkPollRequest /\ UNCHANGED non_lk_vars
    \/ LkPollAcquire /\ UNCHANGED non_lk_vars
    \/ LkPollRelease /\ UNCHANGED non_lk_vars

\* Every thread is an operating-system thread that keeps running: a step
\* of a thread that stays possible is eventually taken.
SpecLk ==
    /\ InitLk
    /\ [][NextLk]_vars
    /\ \A w \in Workers : WF_vars(LkWorker(w) /\ UNCHANGED non_lk_vars)
    /\ WF_vars(LkPoller /\ UNCHANGED non_lk_vars)

----
\* Helpers of the properties
IsIncreasing(s) == \A j, k \in 1..Len(s) : j < k => s[j] < s[k]
FetchedOk == {i \in Items : fetched[i] = "ok"}
FetchRaised == {i \in Items : fetched[i] = "raised"}
InSeq(x, s) == \E k \in 1..Len(s) : s[k] = x

\* C1: when create_zip_file is called, the list of succeeded paths handed to
\* it and the list of failure messages are ordered by the position of their
\* items in video_list.
C1_InputOrder ==
    zip_called => (IsIncreasing(zip_input) /\ IsIncreasing(errors))

\* C2: a call that ends with at least one fetch succeeded and at least one
\* failed, and whose packaging did not fail, returns; the failures recorded
\* are as many as the fetches that raised and the succeeded paths as many as
\* the remaining items.
C2_PartialFailure ==
    (outcome # "none" /\ raise_cause # "Zip"
        /\ FetchedOk # {} /\ FetchRaised # {})
    => /\ outcome = "returned"
       /\ Len(errors) = Cardinality(FetchRaised)
       /\ Len(downloaded_files) = total_videos - Cardinality(FetchRaised)

C2_Witness ==
    /\ outcome = "returned"
    /\ Cardinality(FetchRaised) >= 1
    /\ Cardinality(FetchedOk) >= 2

\* C3: a call on a non-empty list whose packaging did not fail ends by raising
\* the batch failure exactly when no item was fetched successfully.
C3_RaiseIffZero ==
    (outcome # "none" /\ video_list # <<>> /\ raise_cause # "Zip")
    => ((outcome = "raised" /\ raise_cause = "NoSuccess") <=> FetchedOk = {})

C3_Witness ==
    /\ outcome = "raised"
    /\ raise_cause = "NoSuccess"
    /\ total_videos >= 2
    /\ Len(errors) = total_videos

\* C4: succeeded plus failed never exceeds the number of items requested, and
\* once every worker was collected each item is in exactly one of the lists.
C4_Accounting ==
    /\ Len(downloaded_files) + Len(errors) <= total_videos
    /\ (main_pc # "start" /\ collected = Items)
       => /\ Len(downloaded_files) + Len(errors) = total_videos
          /\ \A i \in Items :
                InSeq(i, downloaded_files) # InSeq(i, errors)

C4_Witness ==
    /\ main_pc = "collect"
    /\ collected = Items
    /\ Len(downloaded_files) >= 1
    /\ Len(errors) >= 1

\* C5: no item has its fetch started twice, and when the call ends every item
\* of a non-empty list had its fetch started exactly once.
C5_ExactlyOnce ==
    /\ \A i \in Items : started[i] <= 1
    /\ (outcome # "none" /\ video_list # <<>>)
       => \A i \in Items : started[i] = 1

C5_Witness ==
    /\ outcome # "none"
    /\ total_videos >= 3
    /\ fetched[1] = "raised"
    /\ \A i \in Items : started[i] = 1

\* C6: the number of item fetches in progress never exceeds max_workers.
C6_BoundedConcurrency == Fetching <= max_workers

C6_Witness ==
    /\ Fetching = max_workers
    /\ \E i \in Items : pc[i] = "queued"

\* C7: when the call has ended and the per-batch temporary directory had been
\* created, the directory has been removed.
C7_TempRemoved ==
    (outcome # "none" /\ temp_dir # "none") => temp_dir = "removed"

C7_Witness ==
    /\ outcome = "raised"
    /\ raise_cause = "Zip"
    /\ temp_dir = "removed"

\* C8: with a callback, a batch of N >= 1 items whose workers have all ended has
\* published exactly N aggregate snapshots, the last one with percent 100 and
\* current item count N.
C8_SnapshotPerItem ==
    (has_callback /\ video_list # <<>> /\ main_pc # "start"
        /\ \A i \in Items : pc[i] = "done")
    => /\ Len(published) = total_videos
       /\ published[total_videos].percent = 1000
       /\ published[total_videos].current_video = total_videos

\* C9: the aggregate snapshots are published in strictly increasing order of
\* completed count (so no two carry the same count), and when no worker is
\* inside the critical section completed_count equals the number of workers
\* that have left it (no increment is lost).
C9_AtomicPublish ==
    /\ \A j, k \in 1..Len(published) :
          j < k => published[j].current_video < published[k].current_video
    /\ (\A i \in Items : pc[i] # "locked")
       => completed_count =
             Cardinality({i \in Items : pc[i] = "done" /\ fetched[i] = "ok"})

C9_Witness ==
    /\ progress_lock # 0
    /\ \E j \in Items : pc[j] = "wait_lock"
    /\ Len(published) >= 1

\* C10: in a 4-item batch every published aggregate percent is one of 0, 25,
\* 50, 75, 100, equals 100 * completed count / 4, and is not lower than the
\* one published before it.
C10_FourItemPercent ==
    total_videos = 4
    => \A k \in 1..Len(published) :
          /\ published[k].percent \in {0, 250, 500, 750, 1000}
          /\ published[k].percent * 4 = 1000 * published[k].current_video
          /\ k > 1 => published[k - 1].percent <= published[k].percent

C10_Witness ==
    /\ total_videos = 4
    /\ Len(published) = 3
    /\ main_pc = "end"
    /\ Cardinality(FetchRaised) = 1

\* C12: a call with an empty item list never creates the per-batch temporary
\* directory, never creates the executor that dispatches fetches and never
\* packages, and it ends by raising the "No videos to download" error.
C12_EmptyBatch ==
    video_list = <<>>
    => /\ temp_dir = "none"
       /\ main_pc \in {"start", "end"}
       /\ ~zip_called
       /\ outcome # "none"
          => /\ outcome = "raised"
             /\ exc = VideoDownloadException(<<"No videos to download">>)

C12_Witness ==
    /\ video_list = <<>>
    /\ outcome = "raised"
    /\ raise_cause = "NoVideos"

\* C20: when create_zip_file raised during a batch, the exception that leaves
\* download_multiple_videos is that same exception, with the same kind and
\* the same message.
C20_PackagingErrorAsIs ==
    (outcome = "raised" /\ zip_error # NoExc) => exc = zip_error

\* Helpers of the hook properties
Completing(e) ==
    e.status = "finished" \/ clean_percent_string(e.percent_str) >= 10000
CompletingEvents == {k \in 1..Len(hook_events) : Completing(hook_events[k])}
FirstCompleting == CHOOSE k \in CompletingEvents : \A m \in CompletingEvents : k <= m
Reported == VideoId \in DOMAIN progress /\ progress[VideoId].reported_finished
FinishedForwards == {j \in 1..Len(forwarded) : forwarded[j].status = "finished"}
FirstCompletionPinned ==
    CompletingEvents # {}
    => /\ Reported
       /\ \E j \in 1..Len(forwarded) :
             forwarded_at[j] = FirstCompleting /\ forwarded[j].percent = 10000

\* C13: the percent values forwarded to the callback for one id, in the order
\* they are forwarded, never decrease.
C13_ForwardedNonDecreasing ==
    \A j, k \in 1..Len(forwarded) :
        j < k => forwarded[j].percent <= forwarded[k].percent

\* C14 (as stated): the first completing event sets reported_finished and is
\* forwarded with percent exactly 100.0, and the completion notification is
\* forwarded to the callback at most once for the id.
C14_NotificationOnce ==
    /\ FirstCompletionPinned
    /\ Cardinality(FinishedForwards) <= 1

\* C14 (amended): the first completing event sets reported_finished and is
\* forwarded with percent exactly 100.0; reported_finished is set exactly when
\* a completing event was seen; the one-time completion branch ran at most
\* once; and every 'finished' event, duplicates included, is still forwarded
\* with status 'finished' and percent 100.0.
C14_CompletionBranchOnce ==
    /\ FirstCompletionPinned
    /\ completed_logged <= 1
    /\ (CompletingEvents = {}) => (~Reported /\ completed_logged = 0)
    /\ (CompletingEvents # {}) => completed_logged = 1
    /\ \A k \in 1..Len(hook_events) :
          hook_events[k].status = "finished"
          => \E j \in 1..Len(forwarded) :
                /\ forwarded_at[j] = k
                /\ forwarded[j].status = "finished"
                /\ forwarded[j].percent = 10000

C14_Witness ==
    /\ Cardinality(FinishedForwards) >= 2
    /\ completed_logged = 1
    /\ Reported

\* Helper of the store properties: the content of the mapping the poller holds
PolledView == IF polled.alias THEN progress_data ELSE polled.snap

\* C15: the mapping returned by get_progress_status keeps the ids and the
\* snapshot bound to each id that it had when it was returned, whatever
\* update_progress and clear_progress do afterwards, and each of its values
\* is a snapshot that was passed to an earlier update_progress call.
C15_DefensiveCopy ==
    polled.taken
    => /\ PolledView = polled_seen
       /\ \A id \in DOMAIN PolledView : PolledView[id] \in passed

C15_Witness ==
    /\ polled.taken
    /\ DOMAIN polled_seen = StoreIds
    /\ progress_data # polled_seen
    /\ \E id \in DOMAIN progress_data : progress_data[id] # polled_seen[id]

\* C16: the percent stored for an id never goes down through a call whose
\* status is not 'finished': an update_progress call with a lower percent than
\* the stored one (status not 'finished') leaves the stored snapshot
\* unchanged, so the store holds the maximum percent reported per id.
C16_LowerPercentIgnored ==
    [][\A id \in (DOMAIN progress_data) \cap (DOMAIN progress_data') :
          progress_data'[id].percent < progress_data[id].percent
          => progress_data'[id].status = "finished"]_vars

\* Helpers of the packaging properties
AllExist == \A k \in 1..Len(file_paths) : file_paths[k] \in DOMAIN fs
LastComponent(path) == path[Len(path)]
RECURSIVE EntriesOfExisting(_)
EntriesOfExisting(paths) ==
    IF paths = <<>> THEN <<>>
    ELSE (IF Head(paths) \in DOMAIN fs
          THEN <<[name |-> <<LastComponent(Head(paths))>>,
                  content |-> fs[Head(paths)]]>>
          ELSE <<>>) \o EntriesOfExisting(Tail(paths))

\* C17: when all N input paths exist and create_zip_file has returned, the
\* archive has exactly N entries, the k-th named by the last component alone
\* of the k-th path and holding the content of that file.
C17_OneEntryPerFile ==
    (zip_pc = "done" /\ AllExist)
    => /\ Len(archive) = Len(file_paths)
       /\ \A k \in 1..Len(file_paths) :
             /\ archive[k].name = <<LastComponent(file_paths[k])>>
             /\ archive[k].content = fs[file_paths[k]]

C17_Witness ==
    /\ zip_pc = "done"
    /\ AllExist
    /\ Len(file_paths) >= 2
    /\ \E k \in 1..Len(file_paths) : Len(file_paths[k]) > 2

\* C18: a missing input path never makes create_zip_file raise (it raises
\* only when the destination cannot be opened, before any entry), and when
\* it has returned the archive holds the entries of exactly the input paths
\* that exist, in input order.
C18_MissingSkipped ==
    /\ zip_pc = "raised" => (zip_idx = 0 /\ archive = <<>>)
    /\ zip_pc = "done" => archive = EntriesOfExisting(file_paths)

C18_Witness ==
    /\ zip_pc = "done"
    /\ Len(file_paths) >= 2
    /\ file_paths[1] \notin DOMAIN fs
    /\ Len(archive) >= 1

\* C19: two runs that write into the same output directory never compute the
\* same archive path, and the archive at the path a run returned holds that
\* run's content.
C19_DistinctArchivePaths ==
    /\ \A r1, r2 \in Runs :
          (r1 # r2 /\ run_pc[r1] # "idle" /\ run_pc[r2] # "idle")
          => zip_path[r1] # zip_path[r2]
    /\ \A r \in Runs :
          run_pc[r] = "returned" => zip_owner[zip_path[r]] = r

\* C11: when exactly one item remains after selection filtering of a
\* playlist, the call has made exactly one call to the core, a
\* download_single_video of that item, the packager was not reached, and a
\* returned path is that item's own file path, not the archive path.
C11_SingleNeverPackaged ==
    (dc_pc = "done" /\ info_type = "playlist" /\ Len(videos) = 1)
    => /\ dc_calls = <<[fn |-> "download_single_video", arg |-> videos[1]]>>
       /\ ~packager_called
       /\ dc_result[1] # NoPath
          => (dc_result[1] = item_path(videos[1])
              /\ dc_result[1] # archive_path)

C11_Witness ==
    /\ dc_pc = "done"
    /\ Len(playlist) >= 2
    /\ selected_videos # <<>>
    /\ Len(videos) = 1
    /\ dc_result[1] = item_path(videos[1])

\* C22: a batch during which ffmpeg was removed after items were fetched, and
\* whose packaging did not fail, returns; every item whose availability check
\* found ffmpeg missing is recorded as a failure of that item alone (its error
\* is in the error list, it is not among the files), and every item fetched
\* successfully is among the files handed to the packager.
C22_ToolchainLostMidBatch ==
    (outcome # "none" /\ raise_cause # "Zip" /\ ~ffmpeg_available
        /\ FetchedOk # {})
    => /\ outcome = "returned"
       /\ \A i \in Items :
             checked[i] = "missing"
             => /\ fetched[i] = "raised"
                /\ InSeq(i, errors)
                /\ ~InSeq(i, downloaded_files)
       /\ \A i \in FetchedOk :
             InSeq(i, downloaded_files) /\ InSeq(i, zip_input)

C22_Witness ==
    /\ outcome = "returned"
    /\ \E i, j \in Items :
          /\ i < j
          /\ checked[i] = "ok" /\ fetched[i] = "ok"
          /\ checked[j] = "missing" /\ fetched[j] = "raised"

\* C28: when download_multiple_videos has returned, the path it returned is
\* not inside the per-batch temporary directory, that directory is gone, and
\* the file at the returned path exists.
C28_ArchiveOutlivesTempDir ==
    outcome = "returned"
    => /\ result_path # NoFile
       /\ result_path[1] # "temp_dir"
       /\ temp_dir = "removed"
       /\ \A f \in disk : f[1] # "temp_dir"
       /\ result_path \in disk

C28_Witness ==
    /\ outcome = "returned"
    /\ temp_dir = "removed"
    /\ Cardinality(FetchedOk) >= 2
    /\ result_path \in disk

\* C29: each call of the progress hook forwards its event to the callback
\* exactly when the parsed percent is at least the percent last recorded for
\* the id or the status is 'finished'; a call with a lower percent and
\* another status appends nothing to the forwarded snapshots and leaves
\* last_percent and reported_finished as they were.
C29_ForwardFilter ==
    [][Len(hook_events') = Len(hook_events) + 1
       => LET d == hook_events'[Len(hook_events')]
              percent == clean_percent_string(d.percent_str)
              known == VideoId \in DOMAIN progress
              last_percent == IF known THEN progress[VideoId].last_percent
                              ELSE 0
              reported == known /\ progress[VideoId].reported_finished
          IN  IF percent >= last_percent \/ d.status = "finished"
              THEN /\ Len(forwarded') = Len(forwarded) + 1
                   /\ forwarded'[Len(forwarded')].status = d.status
              ELSE /\ forwarded' = forwarded
                   /\ progress'[VideoId].last_percent = last_percent
                   /\ progress'[VideoId].reported_finished = reported]_vars

C29_Witness ==
    \E k \in 2..Len(hook_events) :
        /\ hook_events[k].status # "finished"
        /\ ~InSeq(k, forwarded_at)
        /\ InSeq(k - 1, forwarded_at)
        /\ clean_percent_string(hook_events[k].percent_str) > 0

\* C30: every snapshot the progress hook forwarded carries a percent within
\* [0, 100] (percents are in hundredths).
C30_PercentWithinRange ==
    \A k \in 1..Len(forwarded) :
        forwarded[k].percent >= 0 /\ forwarded[k].percent <= 10000

\* C25: when a playlist download has returned a path, the count in the
\* success message is the number of items that were fetched successfully.
C25_CountIsSuccesses ==
    (dc_pc = "done" /\ info_type = "playlist" /\ dc_result[1] # NoPath)
    => /\ dc_result[2].kind = "success"
       /\ dc_result[2].count = fetched_count

\* C24: of two get_download_options calls in video mode with the same
\* video_quality, or in audio mode with the same audio_format, both produce
\* the same result (the same options, or the same error), whatever the
\* parameter of the other mode is.
C24_InactiveParameterIgnored ==
    \A j, k \in 1..Len(opt_calls) :
        LET c1 == opt_calls[j]
            c2 == opt_calls[k]
        IN  /\ (c1.format_type = "video" /\ c2.format_type = "video"
                  /\ c1.video_quality = c2.video_quality)
               => c1.result = c2.result
            /\ (c1.format_type = "audio" /\ c2.format_type = "audio"
                  /\ c1.audio_format = c2.audio_format)
               => c1.result = c2.result

C24_Witness ==
    /\ Len(opt_calls) = 2
    /\ opt_calls[1].format_type = "video"
    /\ opt_calls[2].format_type = "video"
    /\ opt_calls[1].video_quality = Q720p
    /\ opt_calls[2].video_quality = Q720p
    /\ opt_calls[1].audio_format = "mp3"
    /\ opt_calls[2].audio_format = "ogg"
    /\ opt_calls[2].result.kind = "options"
    /\ opt_calls[2].result.height = 720

\* C21: a download_single_video call whose availability check returned false
\* has ended by raising the FFmpeg-not-found VideoDownloadException, having
\* created no directory, resolved no metadata and not invoked the engine.
C21_ToolchainCheckedFirst ==
    (dsv_pc \notin {"off", "start"} /\ ~dsv_ffmpeg)
    => /\ dsv_pc = "done"
       /\ dsv_outcome = DsvRaised("ffmpeg", FfmpegNotFound)
       /\ dsv_trace = <<>>
       /\ dsv_tmp = "none"

C21_Witness ==
    /\ dsv_pc = "done"
    /\ ~dsv_ffmpeg
    /\ dsv_output_dir = "omitted"
    /\ dsv_input = "url"
    /\ dsv_outcome.exc = FfmpegNotFound

\* C23: a download_single_video call with an unsupported format type, or in
\* audio mode with an unsupported audio codec, has ended by raising without
\* any effect: no directory created, no metadata resolved.
C23_ValidatedBeforeWork ==
    (dsv_pc = "done"
        /\ (dsv_format.format_type \notin supported_formats
            \/ (dsv_format.format_type = "audio"
                /\ dsv_format.audio_format \notin
                      supported_audio_formats \cup {NoValue})))
    => /\ dsv_outcome.kind = "raised"
       /\ dsv_trace = <<>>
       /\ dsv_tmp = "none"

\* C26: after a download_single_video call made by download_content of the
\* modular app has returned, the progress store holds a snapshot of percent
\* 100 for the item's id.
C26_ProgressObservable ==
    (dsv_pc = "done" /\ dsv_caller = "components.download_content"
        /\ dsv_outcome.kind = "returned")
    => /\ VideoId \in DOMAIN dsv_store
       /\ dsv_store[VideoId].percent = 10000

\* C27: after a download_single_video call with output_dir omitted has
\* raised because the engine failed or no output file was found, the
\* temporary directory it created does not exist.
C27_OwnTempDirReleased ==
    (dsv_pc = "done" /\ dsv_output_dir = "omitted"
        /\ dsv_outcome.kind = "raised"
        /\ dsv_outcome.cause \in {"engine", "no_output"})
    => dsv_tmp # "exists"

\* C33: a download_single_video call that ended by raising raised a
\* VideoDownloadException, whatever the cause was.
C33_OnlyFetchErrorEscapes ==
    (dsv_pc = "done" /\ dsv_outcome.kind = "raised")
    => dsv_outcome.exc.kind = "VideoDownloadException"

\* C35: download_multiple_videos called with a list of one item returns the
\* path of that item's file and does not call create_zip_file.
C35_OneItemNoArchive ==
    (outcome = "returned" /\ total_videos = 1)
    => /\ ~zip_called
       /\ result_path = item_file(1)

\* C34: once download_multiple_videos has returned or raised, no worker task
\* is queued or running, and while any download_single_video call is in
\* progress the per-batch temporary directory has not been removed.
C34_EndsAfterAllWorkers ==
    /\ outcome # "none"
       => \A i \in Items : pc[i] \in {"idle", "done"}
    /\ (\E i \in Items : pc[i] \in {"queued", "fetching", "wait_lock", "locked"})
       => temp_dir = "exists"

C34_Witness ==
    /\ outcome # "none"
    /\ temp_dir = "removed"
    /\ total_videos >= 3
    /\ FetchRaised # {}
    /\ \A i \in Items : pc[i] = "done" /\ started[i] = 1

\* Helpers of the output discovery properties
NameOf(path) == SubSeq(path, 2, Len(path))
Matching(i, names) ==
    {n \in names : StartsWith(n, disc_titles[i]) /\ ~EndsWith(n, ".part")}
Listed(i) == {disc_listing[i][k] : k \in 1..Len(disc_listing[i])}

\* C32: a call that got past the engine either returned a path in the work
\* directory whose file name was listed, starts with the sanitized title and
\* does not end with ".part", or, when no listed name is such, raised the
\* "No file was downloaded" error.
C32_OutputDiscovery ==
    \A i \in DOMAIN disc_pc :
        disc_pc[i] = "done"
        => IF Matching(i, Listed(i)) = {}
           THEN /\ disc_result[i].kind = "raised"
                /\ disc_result[i].exc = NoFileDownloaded
                /\ disc_result[i].path = NoFile
           ELSE /\ disc_result[i].kind = "returned"
                /\ disc_result[i].path[1] = "output_dir"
                /\ NameOf(disc_result[i].path) \in Matching(i, Listed(i))

C32_Witness ==
    \E i, j \in DOMAIN disc_pc :
        /\ disc_pc[i] = "done" /\ disc_pc[j] = "done"
        /\ disc_result[i].kind = "returned"
        /\ part_file(disc_titles[i]) \in Listed(i)
        /\ disc_result[j].kind = "raised"
        /\ Listed(j) # {}

\* C31: in a directory that was empty when the batch started, the path an
\* item's call returned names a file written by that item's own fetch, and
\* no two items returned the same path.
C31_OwnOutputOnly ==
    OldFile \notin DOMAIN disc_dir
    => \A i, j \in DOMAIN disc_pc :
          (disc_result[i].kind = "returned" /\ disc_result[j].kind = "returned")
          => /\ disc_dir[NameOf(disc_result[i].path)] = i
             /\ i # j => disc_result[i].path # disc_result[j].path

\* Helpers of the selection properties
CallArgs ==
    IF dc_calls = <<>> THEN <<>>
    ELSE IF dc_calls[1].fn = "download_single_video" THEN <<dc_calls[1].arg>>
    ELSE dc_calls[1].arg
KeptIndices ==
    SelectSeq(selected_videos,
              LAMBDA i : i < Len(playlist) /\ i >= 0 - Len(playlist))
AtIndices ==
    [k \in 1..Len(KeptIndices) |->
        playlist[IF KeptIndices[k] >= 0 THEN KeptIndices[k] + 1
                 ELSE Len(playlist) + KeptIndices[k] + 1]]

\* C37 as stated: the items fetched for a playlist are the items at the
\* selected indices below the playlist length, in selection order, and with
\* an empty selection nothing is fetched and "no videos selected" reported.
C37_ExactlySelected ==
    (dc_pc = "done" /\ info_type = "playlist"
        /\ ~index_error(playlist, selected_videos))
    => /\ CallArgs = AtIndices
       /\ selected_videos = <<>>
          => dc_calls = <<>> /\ dc_result[2].kind = "none_selected"

\* C37 as amended: the items fetched are those at the selected indices in
\* range, in selection order; an index below -length ends the call with the
\* download error and no fetch; an empty selection fetches every item of the
\* playlist; "no videos selected or found" is reported exactly when no item
\* remains.
C37_SelectedOrAll ==
    (dc_pc = "done" /\ info_type = "playlist")
    => IF index_error(playlist, selected_videos)
       THEN dc_calls = <<>> /\ dc_result = <<NoPath, [kind |-> "error"]>>
       ELSE /\ CallArgs = IF selected_videos = <<>> THEN playlist
                          ELSE AtIndices
            /\ Len(dc_calls) <= 1
            /\ (dc_result[2].kind = "none_selected") <=> (CallArgs = <<>>)

C37_Witness ==
    /\ dc_pc = "done"
    /\ info_type = "playlist"
    /\ selected_videos = <<>>
    /\ Len(playlist) >= 2
    /\ CallArgs = playlist

\* C36: for a download started in video mode with quality Q selected, the
\* engine options built are those of get_download_options for quality Q:
\* the unbounded selector for "best", else the selector with ceiling Q.
C36_SelectedQualityUsed ==
    (ui_pc = "built" /\ ui_request.format_type = "video")
    => /\ ui_opts.kind = "options"
       /\ ui_opts.height = IF ui_request.video_quality = QBest THEN 0
                           ELSE quality_height(ui_request.video_quality)
       /\ ui_opts.format = IF ui_request.video_quality = QBest
                           THEN "bestvideo+bestaudio"
                           ELSE "bestvideo[height<=H]+bestaudio"

\* C39: while a download_content call is in flight, the store holds the
\* last snapshot that call has published.
C39_InFlightSnapshotsKept ==
    \A s \in DOMAIN sess_pc :
        (sess_pc[s] = "running" /\ sess_sent[s] > 0)
        => /\ session_id(s) \in DOMAIN sess_store
           /\ sess_store[session_id(s)] = session_snapshot(s, sess_sent[s])

\* Helpers of C38: the positions where a thread waits for, or holds, a lock
LkWaiting == {"hook_wait", "batch_wait", "callback_wait", "poll_wait"}

LkHolding == {"hook_in", "callback_in", "batch_in", "poll_in"}

\* C38: every thread that requests a lock eventually obtains it, every
\* thread in a lock eventually holds none, and the batch terminates: all
\* workers end, after which both locks stay free.
C38_NoDeadlock ==
    /\ \A t \in Threads :
           (lk_pc[t] \in LkWaiting) ~> (lk_pc[t] \in LkHolding)
    /\ \A t \in Threads :
           (lk_pc[t] \in LkWaiting \cup LkHolding)
               ~> (\A l \in DOMAIN lk_locks : lk_locks[l] # t)
    /\ <>[](/\ \A w \in Workers : lk_pc[w] = "done"
            /\ \A l \in DOMAIN lk_locks : lk_locks[l] = Free)

\* a worker is inside the store lock while holding the batch lock, the
\* other worker waits for the batch lock and the poller for the store lock
C38_Witness ==
    /\ lk_pc # <<>>
    /\ \E w \in Workers :
           /\ lk_pc[w] = "callback_in"
           /\ lk_locks[batch_lock] = w
           /\ lk_locks[store_lock] = w
           /\ \E v \in Workers \ {w} : lk_pc[v] = "batch_wait"
    /\ lk_pc[Poller] = "poll_wait"

====
